---- MODULE Spec2Model ----
(***************************************************************************)
(* A model of the book_creator image tools (src/tools/image_tools.py):     *)
(* the bounded-retry prompt validation, the batch image generation loop    *)
(* and the text layout helpers (colour / position parsing, wrapping,       *)
(* placement, the overlay and side-panel drawing entry points).            *)
(*                                                                         *)
(* Python strings are modelled as sequences of one-character strings, so   *)
(* that startswith / strip / split / int are computed, not assumed.        *)
(***************************************************************************)
EXTENDS Integers, Sequences, FiniteSets, TLC

VARIABLES
    call_count,      \* validate_image_prompts.call_count (0: attribute not set yet)
    invocations,     \* number of invocations of validate_image_prompts so far
    first_approved,  \* index of the first invocation that returned auto_approved = True (0: none)
    model_calls,     \* number of completion() calls made by validate_image_prompts
    vresult,         \* outcome of the last invocation of validate_image_prompts
    batch,           \* the running generate_images_batch call
    call,            \* the pending / finished call of a layout helper or drawing tool
    fs               \* the file system: path -> content ("absent" when there is no file)

vars == <<call_count, invocations, first_approved, model_calls, vresult, batch, call, fs>>

(***************************************************************************)
(* Bounds of the model.                                                    *)
(***************************************************************************)
MaxCalls == 5
MaxPrompts == 2
MaxBatch == 2

(***************************************************************************)
(* General helpers.                                                        *)
(***************************************************************************)
Range(s) == {s[i] : i \in 1..Len(s)}

SeqsUpTo(S, n) == UNION {[1..k -> S] : k \in 0..n}

Min(a, b) == IF a <= b THEN a ELSE b

Max(a, b) == IF a >= b THEN a ELSE b

\* str.split(sep): the parts of s between the occurrences of sep (never empty)
RECURSIVE Split(_, _)
Split(s, sep) ==
    IF \E i \in 1..Len(s) : s[i] = sep
    THEN LET k == CHOOSE i \in 1..Len(s) : s[i] = sep /\ \A j \in 1..(i-1) : s[j] # sep
         IN  <<SubSeq(s, 1, k - 1)>> \o Split(SubSeq(s, k + 1, Len(s)), sep)
    ELSE <<s>>

(***************************************************************************)
(* Text of prompts and image names, for the validation and batch tools.    *)
(* A text is a sequence of word tokens; `w in text.lower()` is decided     *)
(* from the lowered tokens.                                                *)
(***************************************************************************)
\* str.lower() on one token
LowerTok(t) ==
    CASE t = "Cover" -> "cover"
      [] t = "COVER:" -> "cover:"
      [] t = "BOOK" -> "book"
      [] t = "Moon" -> "moon"
      [] t = "Tale" -> "tale"
      [] t = "Title" -> "title"
      [] t = ".PNG" -> ".png"
      [] t = ".JPG" -> ".jpg"
      [] OTHER -> t

\* the searched words that occur inside a lowered token
WordsIn(t) ==
    CASE t \in {"cover", "cover:", "cover."} -> {"cover"}
      [] t = "title" -> {"title"}
      [] t = "moon" -> {"moon"}
      [] t = "tale" -> {"tale"}
      [] OTHER -> {}

\* `word in text.lower()`, for an already lowered word
ContainsLower(text, word) ==
    \E i \in 1..Len(text) : word \in WordsIn(LowerTok(text[i]))

\* title_match of line 999: the title quoted in the story ("" when there is none)
StoryTitles == {<<>>, <<"Moon">>}

\* the prompt dictionaries the upstream agent hands to validate_image_prompts
ValidationItems ==
    { [image_name |-> <<"Tale", "/", "Cover", ".jpg">>, prompt |-> <<"a", "fox">>],
      [image_name |-> <<"cover", ".jpg">>,              prompt |-> <<"the", "Title", "Moon">>],
      [image_name |-> <<"Tale", "/", "page1", ".jpg">>, prompt |-> <<"a", "fox">>] }

ValidationLists == SeqsUpTo(ValidationItems, MaxPrompts)

\* what completion() does and what json.loads makes of its answer
ModelAnswers ==
    { [kind |-> "error",     auto_approved |-> FALSE, next_steps |-> "absent"],
      [kind |-> "not_json",  auto_approved |-> FALSE, next_steps |-> "absent"],
      [kind |-> "json_list", auto_approved |-> FALSE, next_steps |-> "absent"],
      [kind |-> "json_dict", auto_approved |-> TRUE,  next_steps |-> "str"],
      [kind |-> "json_dict", auto_approved |-> FALSE, next_steps |-> "absent"],
      [kind |-> "json_dict", auto_approved |-> FALSE, next_steps |-> "list"] }

(***************************************************************************)
(* validate_image_prompts: the bounded-retry prompt validation.            *)
(***************************************************************************)
\* number of the invocation from which the call is automatically approved
AutoApproveAt == 3

\* `"cover" in prompt_data.get("image_name", "").lower()`
IsCover(item) == ContainsLower(item.image_name, "cover")

\* `book_title.lower() in prompt.lower()`
TitleIn(title, text) == \A i \in 1..Len(title) : ContainsLower(text, LowerTok(title[i]))

\* lines 998-1008: the title quoted in the story, else the folder of the first
\* cover image whose name has one
RECURSIVE FolderTitle(_)
FolderTitle(prompts_list) ==
    IF prompts_list = <<>> THEN <<>>
    ELSE LET parts == Split(Head(prompts_list).image_name, "/")
         IN  IF IsCover(Head(prompts_list)) /\ Len(parts) > 1
             THEN parts[Len(parts) - 1]
             ELSE FolderTitle(Tail(prompts_list))

BookTitle(prompts_list, story_title) ==
    IF story_title # <<>> THEN story_title ELSE FolderTitle(prompts_list)

\* lines 1009-1017: a cover prompt that lacks the title, or does not say it is
\* a cover, is rewritten in place
FixCoverPrompt(item, book_title) ==
    IF ~IsCover(item) THEN item
    ELSE IF book_title # <<>> /\ ~TitleIn(book_title, item.prompt)
    THEN [item EXCEPT !.prompt = <<"BOOK", "COVER:">> \o item.prompt
                                 \o <<"display", "the", "title">> \o book_title
                                 \o <<"cover", "design">>]
    ELSE IF ~ContainsLower(item.prompt, "cover") /\ ~ContainsLower(item.prompt, "title")
    THEN [item EXCEPT !.prompt = <<"BOOK", "COVER:">> \o item.prompt
                                 \o <<"cover", "image", "for", "a", "book">>]
    ELSE item

FixCoverPrompts(prompts_list, book_title) ==
    [i \in 1..Len(prompts_list) |-> FixCoverPrompt(prompts_list[i], book_title)]

\* lines 973-993: the automatic approval
AutoApproved(count, prompts_list) ==
    [kind |-> "return", exc |-> "none", auto_approved |-> TRUE,
     final_opportunity |-> FALSE,
     feedback_for |-> {prompts_list[i].image_name : i \in 1..Len(prompts_list)},
     prompts_validated |-> Len(prompts_list), total_prompts |-> Len(prompts_list),
     validation_attempts |-> count]

Raised(exc) ==
    [kind |-> "raise", exc |-> exc, auto_approved |-> FALSE,
     final_opportunity |-> FALSE, feedback_for |-> {},
     prompts_validated |-> 0, total_prompts |-> 0, validation_attempts |-> 0]

\* a validation that keeps the auto_approved field of the model's answer
ParsedAutoApproved_Kept(answer) == answer.auto_approved

\* line 1149: the parsed answer's own auto_approved is overwritten
ParsedAutoApproved(answer) == FALSE

\* lines 1110-1186: the model call and the reading of its answer
ValidationOutcome(count, prompts_list, to_validate, answer) ==
    IF answer.kind = "error" THEN Raised("ValueError")
    ELSE IF answer.kind = "json_list" THEN Raised("ValueError")
    ELSE IF answer.kind = "json_dict" /\ count = 2 /\ answer.next_steps = "list"
    THEN Raised("ValueError")
    ELSE [kind |-> "return", exc |-> "none",
          auto_approved |-> IF answer.kind = "json_dict"
                            THEN ParsedAutoApproved(answer) ELSE FALSE,
          final_opportunity |-> (count = 2),
          feedback_for |-> IF answer.kind = "json_dict" THEN {}
                           ELSE {to_validate[i].image_name : i \in 1..Len(to_validate)},
          prompts_validated |-> Len(to_validate), total_prompts |-> Len(prompts_list),
          validation_attempts |-> count]

\* a circuit breaker that opens one invocation late
AttemptsExhausted_Late(count) == count > AutoApproveAt

\* line 973: the circuit breaker
AttemptsExhausted(count) == count >= AutoApproveAt

\* a counter that stops counting once the circuit breaker is open
NextAttempt_Saturating(count0) == IF count0 >= AutoApproveAt THEN count0 ELSE count0 + 1

\* lines 969-971: the attribute of the function object, made 0 when it is
\* missing, is incremented before anything else is looked at
NextAttempt(count0) == count0 + 1

\* The whole function: the new counter, the outcome, the list as the function
\* leaves it, and whether completion() was called.
validate_image_prompts(count0, prompts_list, story_title, answer, max_prompts_to_validate) ==
    LET count == NextAttempt(count0)
        fixed == FixCoverPrompts(prompts_list, BookTitle(prompts_list, story_title))
        to_validate == SubSeq(fixed, 1, Min(Len(fixed), max_prompts_to_validate))
    IN  IF AttemptsExhausted(count)
        THEN [count |-> count, out |-> AutoApproved(count, prompts_list),
              prompts_after |-> prompts_list, called_model |-> FALSE]
        ELSE IF prompts_list = <<>>
        THEN [count |-> count, out |-> Raised("ValueError"),
              prompts_after |-> prompts_list, called_model |-> FALSE]
        ELSE [count |-> count, out |-> ValidationOutcome(count, fixed, to_validate, answer),
              prompts_after |-> fixed, called_model |-> TRUE]

NoResult ==
    [kind |-> "none", exc |-> "none", auto_approved |-> FALSE,
     final_opportunity |-> FALSE, feedback_for |-> {},
     prompts_validated |-> 0, total_prompts |-> 0, validation_attempts |-> 0,
     prompts_before |-> <<>>, prompts_after |-> <<>>, called_model |-> FALSE]

\* the values max_prompts_to_validate is called with (5 is the default)
MaxToValidate == {1, 5}

\* One invocation by the upstream agent, with any arguments and any answer.
Validate ==
    /\ invocations < MaxCalls
    /\ \E pl \in ValidationLists, st \in StoryTitles, ans \in ModelAnswers, mx \in MaxToValidate :
          LET r == validate_image_prompts(call_count, pl, st, ans, mx)
          IN  /\ call_count' = r.count
              /\ invocations' = invocations + 1
              /\ model_calls' = model_calls + (IF r.called_model THEN 1 ELSE 0)
              /\ first_approved' = IF first_approved = 0 /\ r.out.kind = "return"
                                      /\ r.out.auto_approved
                                   THEN invocations + 1 ELSE first_approved
              /\ vresult' = [kind |-> r.out.kind, exc |-> r.out.exc,
                             auto_approved |-> r.out.auto_approved,
                             final_opportunity |-> r.out.final_opportunity,
                             feedback_for |-> r.out.feedback_for,
                             prompts_validated |-> r.out.prompts_validated,
                             total_prompts |-> r.out.total_prompts,
                             validation_attempts |-> r.out.validation_attempts,
                             prompts_before |-> pl, prompts_after |-> r.prompts_after,
                             called_model |-> r.called_model]
    /\ UNCHANGED <<batch, call, fs>>

NoBatch == [pc |-> "idle"]

NoCall == [fn |-> "none"]

NoFiles == <<>>

InitValidation ==
    /\ call_count = 0
    /\ invocations = 0
    /\ first_approved = 0
    /\ model_calls = 0
    /\ vresult = NoResult
    /\ batch = NoBatch
    /\ call = NoCall
    /\ fs = NoFiles

NextValidation == Validate

SpecValidation == InitValidation /\ [][NextValidation]_vars

(***************************************************************************)
(* Claims on validate_image_prompts.                                       *)
(***************************************************************************)
\* C1 (as stated): the first and the second invocation each return a result
\* with auto_approved = False, the third and every later one returns a result
\* with auto_approved = True.
C1_EveryCallReturns ==
    invocations >= 1 =>
        /\ vresult.kind = "return"
        /\ vresult.auto_approved = (invocations >= 3)

\* C1 (amended): the first and the second invocation either raise or return a
\* result with auto_approved = False; the third and every later invocation
\* returns a result with auto_approved = True.
C1_ReturnedResultByCallNumber ==
    invocations >= 1 =>
        IF invocations < 3
        THEN \/ vresult.kind = "raise"
             \/ vresult.kind = "return" /\ ~vresult.auto_approved
        ELSE vresult.kind = "return" /\ vresult.auto_approved

\* C1 witness: a second invocation that returned a parsed answer (not
\* approved), and a later one that is approved.
C1_Witness ==
    \/ /\ invocations = 2
       /\ vresult.kind = "return" /\ ~vresult.auto_approved
       /\ vresult.called_model /\ vresult.final_opportunity
       /\ vresult.feedback_for = {}
    \/ /\ invocations = 4
       /\ vresult.kind = "return" /\ vresult.auto_approved

\* C2: a caller that re-invokes until it receives auto_approved = True stops
\* after at most 3 invocations, whatever the earlier invocations did; from the
\* third invocation on no model call is made and the list is left as passed.
C2_LoopEndsByThirdCall ==
    /\ model_calls <= 2
    /\ first_approved <= 3
    /\ invocations >= 3 =>
          /\ first_approved \in 1..3
          /\ vresult.kind = "return" /\ vresult.auto_approved
          /\ ~vresult.called_model
          /\ vresult.prompts_after = vresult.prompts_before

\* C2 witness: the third invocation, after two that raised on an empty list
\* without calling the model, is passed a cover prompt that the first two
\* invocations would have rewritten.
C2_Witness ==
    /\ invocations = 3
    /\ model_calls = 0
    /\ first_approved = 3
    /\ vresult.prompts_before # <<>>
    /\ FixCoverPrompts(vresult.prompts_before, BookTitle(vresult.prompts_before, <<>>))
          # vresult.prompts_before

(***************************************************************************)
(* generate_images_batch: preprocessing, the checks before the loop and    *)
(* the generation loop, one item per step.                                 *)
(***************************************************************************)
Dict(name, prompt) ==
    [is_dict |-> TRUE, keys |-> {"image_name", "prompt"}, image_name |-> name, prompt |-> prompt]

\* the items a caller may put in prompts_list
BatchItems ==
    { Dict(<<"a", ".jpg">>, <<"a", "fox">>),
      Dict(<<"b", ".PNG">>, <<"a", "fox">>),
      Dict(<<"c", ".gif">>, <<"a", "fox">>),
      Dict(<<"Tale", "/", "cover", ".jpg">>, <<"a", "fox">>),
      Dict(<<"a", ".jpg">>, <<>>),
      [is_dict |-> TRUE, keys |-> {"prompt"}, image_name |-> <<>>, prompt |-> <<"a", "fox">>],
      [is_dict |-> TRUE, keys |-> {"image_name"}, image_name |-> <<"a", ".jpg">>, prompt |-> <<>>],
      [is_dict |-> TRUE, keys |-> {"image_name"}, image_name |-> <<"Tale", "/", "cover", ".jpg">>, prompt |-> <<>>],
      [is_dict |-> FALSE, keys |-> {}, image_name |-> <<>>, prompt |-> <<>>] }

BatchLists == SeqsUpTo(BatchItems, MaxBatch)

\* what completion() gives for one prompt during preprocessing
PreprocessAnswers == {"text", "empty", "error"}

\* lines 1297-1349 and 1373-1410 of preprocess_image_prompts, for one item
PreprocessItem(item, book_title, answer) ==
    IF IsCover(item)
    THEN IF answer = "text" THEN [item EXCEPT !.prompt = <<"processed", "cover">>,
                                              !.keys = @ \cup {"prompt"}]
         ELSE IF answer = "empty" THEN [item EXCEPT !.prompt = <<>>,
                                                    !.keys = @ \cup {"prompt"}]
         ELSE IF book_title # <<>> /\ ~TitleIn(book_title, item.prompt)
         THEN [item EXCEPT !.prompt = <<"BOOK", "COVER:">> \o item.prompt
                                         \o <<"The", "title">> \o book_title,
                           !.keys = @ \cup {"prompt"}]
         ELSE IF ~ContainsLower(item.prompt, "cover")
         THEN [item EXCEPT !.prompt = <<"BOOK", "COVER:">> \o item.prompt,
                           !.keys = @ \cup {"prompt"}]
         ELSE item
    ELSE IF item.prompt = <<>> THEN item
    ELSE IF answer = "text" THEN [item EXCEPT !.prompt = <<"processed">>]
    ELSE IF answer = "empty" THEN [item EXCEPT !.prompt = <<>>]
    ELSE item

\* preprocess_image_prompts: the list it returns, or that it raised
preprocess_image_prompts(prompts_list, meta_title, answers) ==
    IF prompts_list = <<>> \/ \E i \in 1..Len(prompts_list) : ~prompts_list[i].is_dict
    THEN [raised |-> TRUE, list |-> prompts_list]
    ELSE LET folder == FolderTitle(prompts_list)
             book_title == IF folder # <<>> THEN folder ELSE meta_title
         IN  [raised |-> FALSE,
              list |-> [i \in 1..Len(prompts_list) |->
                           PreprocessItem(prompts_list[i], book_title, answers[i])]]

\* lines 1463-1473: only lists of two or more are preprocessed; a failure
\* keeps the original list
Preprocessed(prompts_list, meta_title, answers) ==
    IF Len(prompts_list) > 1
    THEN LET r == preprocess_image_prompts(prompts_list, meta_title, answers)
         IN  IF r.raised THEN prompts_list ELSE r.list
    ELSE prompts_list

\* lines 1478-1493: the checks on the list
ListError(prompts_list) ==
    \/ prompts_list = <<>>
    \/ \E i \in 1..Len(prompts_list) :
          \/ ~prompts_list[i].is_dict
          \/ "image_name" \notin prompts_list[i].keys
          \/ "prompt" \notin prompts_list[i].keys

\* lines 83-85 of _prepare_image_generation
valid_extensions == {".jpg", ".jpeg", ".png"}

HasValidExtension(image_name) ==
    /\ image_name # <<>>
    /\ LowerTok(image_name[Len(image_name)]) \in valid_extensions

\* line 95 / 1554: the name has a parent directory
IsNested(image_name) == Len(Split(image_name, "/")) > 1

output_folder == <<"out">>

\* line 1561: output_path / image_name
SavePath(image_name) == output_folder \o <<"/">> \o image_name

\* f"Error: {...}": the error strings start with "Error:"
ErrorValue(reason) == <<"Error:", reason>>

StartsWithError(value) == Len(value) >= 1 /\ value[1] = "Error:"

\* what the environment does to one item of the loop
ItemFates ==
    {"ok", "mkdir_fails", "first_format_fails", "both_formats_fail",
     "no_image_data", "write_fails"}

\* results[key] = value
Put(results, key, value) ==
    [k \in DOMAIN results \cup {key} |-> IF k = key THEN value ELSE results[k]]

\* the key of an item without a usable name or prompt (line 1544)
ErrorKey(i) == <<"error_", i - 1>>

\* lines 1538-1645: one iteration, for item number i (from 1) under a fate.
\* The result entry it writes, the image_generation calls it makes, and the
\* file it writes (if any).
BatchIteration(item, i, fate) ==
    IF item.image_name = <<>> \/ item.prompt = <<>>
    THEN [key |-> ErrorKey(i), value |-> ErrorValue("missing keys"),
          gen_calls |-> 0, wrote |-> {}]
    ELSE IF IsNested(item.image_name) /\ fate = "mkdir_fails"
    THEN [key |-> item.image_name, value |-> ErrorValue("mkdir"),
          gen_calls |-> 0, wrote |-> {}]
    ELSE IF ~HasValidExtension(item.image_name)
    THEN [key |-> item.image_name, value |-> ErrorValue("extension"),
          gen_calls |-> 0, wrote |-> {}]
    ELSE IF fate = "mkdir_fails"
    THEN [key |-> item.image_name, value |-> ErrorValue("mkdir"),
          gen_calls |-> 0, wrote |-> {}]
    ELSE IF fate = "both_formats_fail"
    THEN [key |-> item.image_name, value |-> ErrorValue("generation failed for both formats"),
          gen_calls |-> 2, wrote |-> {}]
    ELSE LET n == IF fate = "first_format_fails" THEN 2 ELSE 1
         IN  IF fate = "no_image_data"
             THEN [key |-> item.image_name, value |-> ErrorValue("no image data"),
                   gen_calls |-> n, wrote |-> {}]
             ELSE IF fate = "write_fails"
             THEN [key |-> item.image_name, value |-> ErrorValue("write"),
                   gen_calls |-> n, wrote |-> {}]
             ELSE [key |-> item.image_name, value |-> SavePath(item.image_name),
                   gen_calls |-> n, wrote |-> {SavePath(item.image_name)}]

\* lines 1463-1535: the call up to the generation loop
BatchCall ==
    /\ batch.pc = "idle"
    /\ \E pl \in BatchLists, answers \in [1..MaxBatch -> PreprocessAnswers],
          meta_title \in StoryTitles, api_key \in BOOLEAN, folder_ok \in BOOLEAN :
          LET list == Preprocessed(pl, meta_title, answers)
              fails == ListError(list) \/ ~api_key \/ ~folder_ok
          IN  batch' = [pc |-> IF fails THEN "raised" ELSE "loop",
                        exc |-> IF ListError(list) \/ ~api_key THEN "ValueError"
                                ELSE IF ~folder_ok THEN "OSError" ELSE "none",
                        given |-> pl, api_key |-> api_key, items |-> list, i |-> 1,
                        results |-> <<>>, attempted |-> <<>>,
                        gen_calls |-> 0, files |-> {}]
    /\ UNCHANGED <<call_count, invocations, first_approved, model_calls, vresult, call, fs>>

\* lines 1537-1645: one iteration of the generation loop
BatchItem ==
    /\ batch.pc = "loop"
    /\ batch.i <= Len(batch.items)
    /\ \E fate \in ItemFates :
          LET it == BatchIteration(batch.items[batch.i], batch.i, fate)
          IN  batch' = [batch EXCEPT !.i = @ + 1,
                                     !.attempted = Append(@, batch.i),
                                     !.results = Put(@, it.key, it.value),
                                     !.gen_calls = @ + it.gen_calls,
                                     !.files = @ \cup it.wrote]
    /\ UNCHANGED <<call_count, invocations, first_approved, model_calls, vresult, call, fs>>

\* lines 1647-1659: the summary and the return of the mapping
BatchReturn ==
    /\ batch.pc = "loop"
    /\ batch.i > Len(batch.items)
    /\ batch' = [batch EXCEPT !.pc = "done"]
    /\ UNCHANGED <<call_count, invocations, first_approved, model_calls, vresult, call, fs>>

InitBatch ==
    /\ call_count = 0
    /\ invocations = 0
    /\ first_approved = 0
    /\ model_calls = 0
    /\ vresult = NoResult
    /\ batch = NoBatch
    /\ call = NoCall
    /\ fs = NoFiles

NextBatch == BatchCall \/ BatchItem \/ BatchReturn

SpecBatch == InitBatch /\ [][NextBatch]_vars

\* an item with both keys, a name and a prompt
WellFormed(item) ==
    /\ item.is_dict
    /\ item.keys = {"image_name", "prompt"}
    /\ item.image_name # <<>>
    /\ item.prompt # <<>>

\* C3 (as stated): when the batch returns for a list of well-formed items,
\* every item has been attempted in list order, and the mapping holds under
\* each item's image_name the saved path or a string starting with "Error:".
C3_EveryItemUnderItsName ==
    (batch.pc = "done" /\ \A k \in 1..Len(batch.given) : WellFormed(batch.given[k])) =>
        /\ batch.attempted = [k \in 1..Len(batch.given) |-> k]
        /\ \A k \in 1..Len(batch.given) :
              /\ batch.given[k].image_name \in DOMAIN batch.results
              /\ LET v == batch.results[batch.given[k].image_name]
                 IN  v = SavePath(batch.given[k].image_name) \/ StartsWithError(v)

(***************************************************************************)
(* Character strings: a Python str is a sequence of one-character strings; *)
(* None is the one-element sequence <<"None">>, which is no str.           *)
(***************************************************************************)
MaxStrLen == 4
MaxArity == 4

None == <<"None">>

\* `not s` for an optional string
Falsy(s) == s = None \/ s = <<>>

startswith(s, c) == Len(s) >= 1 /\ s[1] = c

endswith(s, c) == Len(s) >= 1 /\ s[Len(s)] = c

\* str.strip(chars)
RECURSIVE lstrip(_, _)
lstrip(s, chars) ==
    IF s # <<>> /\ Head(s) \in chars THEN lstrip(Tail(s), chars) ELSE s

RECURSIVE rstrip(_, _)
rstrip(s, chars) ==
    IF s # <<>> /\ s[Len(s)] \in chars THEN rstrip(SubSeq(s, 1, Len(s) - 1), chars) ELSE s

strip(s, chars) == rstrip(lstrip(s, chars), chars)

Digits == {"0", "1", "2", "3", "4", "5", "6", "7", "8", "9"}

DigitVal(c) ==
    CASE c = "0" -> 0 [] c = "1" -> 1 [] c = "2" -> 2 [] c = "3" -> 3 [] c = "4" -> 4
      [] c = "5" -> 5 [] c = "6" -> 6 [] c = "7" -> 7 [] c = "8" -> 8 [] c = "9" -> 9

RECURSIVE DigitsValue(_)
DigitsValue(s) ==
    IF s = <<>> THEN 0
    ELSE 10 * DigitsValue(SubSeq(s, 1, Len(s) - 1)) + DigitVal(s[Len(s)])

\* int(s): surrounding blanks, one optional sign, then decimal digits;
\* ok = FALSE stands for ValueError
int(s) ==
    LET t == strip(s, {" "})
        signed == t # <<>> /\ Head(t) \in {"+", "-"}
        d == IF signed THEN Tail(t) ELSE t
    IN  IF d # <<>> /\ \A i \in 1..Len(d) : d[i] \in Digits
        THEN [ok |-> TRUE,
              val |-> IF signed /\ Head(t) = "-" THEN 0 - DigitsValue(d) ELSE DigitsValue(d)]
        ELSE [ok |-> FALSE, val |-> 0]

\* str.lower() on one character
LowerChar(c) ==
    CASE c = "A" -> "a" [] c = "B" -> "b" [] c = "C" -> "c" [] c = "D" -> "d" [] c = "E" -> "e"
      [] c = "F" -> "f" [] c = "G" -> "g" [] c = "H" -> "h" [] c = "I" -> "i" [] c = "J" -> "j"
      [] c = "K" -> "k" [] c = "L" -> "l" [] c = "M" -> "m" [] c = "N" -> "n" [] c = "O" -> "o"
      [] c = "P" -> "p" [] c = "Q" -> "q" [] c = "R" -> "r" [] c = "S" -> "s" [] c = "T" -> "t"
      [] c = "U" -> "u" [] c = "V" -> "v" [] c = "W" -> "w" [] c = "X" -> "x" [] c = "Y" -> "y"
      [] c = "Z" -> "z"
      [] OTHER -> c

lower(s) == [i \in 1..Len(s) |-> LowerChar(s[i])]

\* ",".join(fields) wrapped in parentheses: the text of a tuple
RECURSIVE Join(_)
Join(fields) ==
    IF fields = <<>> THEN <<>>
    ELSE IF Len(fields) = 1 THEN fields[1]
    ELSE fields[1] \o <<",">> \o Join(Tail(fields))

TupleText(fields) == <<"(">> \o Join(fields) \o <<")">>

\* the fields tuple texts are built from, and the integer each stands for
\* (ok = FALSE: not the text of an integer)
FieldTexts ==
    { [text |-> <<"1">>,   ok |-> TRUE,  val |-> 1],
      [text |-> <<"2", "0">>,  ok |-> TRUE,  val |-> 20],
      [text |-> <<"-", "3">>,  ok |-> TRUE,  val |-> 0 - 3],
      [text |-> <<" ", "7">>,  ok |-> TRUE,  val |-> 7],
      [text |-> <<"x">>,   ok |-> FALSE, val |-> 0],
      [text |-> <<>>,    ok |-> FALSE, val |-> 0] }

FieldLists == SeqsUpTo(FieldTexts, MaxArity)

FieldsText(fl) == TupleText([i \in 1..Len(fl) |-> fl[i].text])

\* every string over a small alphabet, up to MaxStrLen characters
SmallAlphabet == {"(", ")", ",", "1", "x"}

SmallStrings == SeqsUpTo(SmallAlphabet, MaxStrLen)

(***************************************************************************)
(* _parse_color                                                            *)
(***************************************************************************)
Black == <<"b", "l", "a", "c", "k">>

White == <<"w", "h", "i", "t", "e">>

NameColor(s) == [kind |-> "name", name |-> s, rgb |-> <<>>]

RgbColor(r, g, b) == [kind |-> "rgb", name |-> <<>>, rgb |-> <<r, g, b>>]

\* lines 300, 310: the default of the role
DefaultColor(color_type) == NameColor(IF color_type = "text" THEN Black ELSE White)

\* a parenthesized string taken as a colour name, whatever its fields
ParenthesizedColor_Raw(color_str, color_type) == NameColor(color_str)

\* lines 302-313: a parenthesized string; only three fields are converted
ParenthesizedColor(color_str, color_type) ==
    LET rgb_values == Split(strip(color_str, {"(", ")"}), ",")
    IN  IF Len(rgb_values) = 3
        THEN IF int(rgb_values[1]).ok /\ int(rgb_values[2]).ok /\ int(rgb_values[3]).ok
             THEN RgbColor(int(rgb_values[1]).val, int(rgb_values[2]).val, int(rgb_values[3]).val)
             ELSE DefaultColor(color_type)
        ELSE NameColor(color_str)

_parse_color(color_str, color_type) ==
    IF Falsy(color_str) THEN DefaultColor(color_type)
    ELSE IF startswith(color_str, "(") /\ endswith(color_str, ")")
    THEN ParenthesizedColor(color_str, color_type)
    ELSE NameColor(color_str)

ColorNames == {<<"r", "e", "d">>, <<"B", "l", "u", "e">>, <<"b", "l", "a", "c", "k">>, <<"n", "o", "n", "e">>}

ColorTexts ==
    {None} \cup ColorNames \cup SmallStrings \cup {FieldsText(fl) : fl \in FieldLists}

ColorTypes == {"text", "background"}

\* a pending call of _parse_color
InitColor ==
    /\ call_count = 0
    /\ invocations = 0
    /\ first_approved = 0
    /\ model_calls = 0
    /\ vresult = NoResult
    /\ batch = NoBatch
    /\ fs = NoFiles
    /\ \E c \in ColorTexts, t \in ColorTypes :
          call = [fn |-> "_parse_color", done |-> FALSE, color_str |-> c, color_type |-> t]

ParseColor ==
    /\ call.fn = "_parse_color"
    /\ ~call.done
    /\ call' = [fn |-> "_parse_color", done |-> TRUE,
                color_str |-> call.color_str, color_type |-> call.color_type,
                ret |-> _parse_color(call.color_str, call.color_type)]
    /\ UNCHANGED <<call_count, invocations, first_approved, model_calls, vresult, batch, fs>>

NextColor == ParseColor

SpecColor == InitColor /\ [][NextColor]_vars

\* the text of a tuple of integers with two fields, or with four or more
WrongArityColor(s) ==
    \E fl \in FieldLists :
        /\ Len(fl) >= 2 /\ Len(fl) # 3
        /\ \A i \in 1..Len(fl) : fl[i].ok
        /\ s = FieldsText(fl)

\* C5 (as stated): a parenthesized tuple string of the wrong arity gives the
\* default of the role.
C5_WrongArityGivesDefault ==
    (call.fn = "_parse_color" /\ call.done /\ WrongArityColor(call.color_str)) =>
        call.ret = DefaultColor(call.color_type)

(***************************************************************************)
(* Lengths.  A length is a whole number of fifths of a pixel, so that the  *)
(* line height font_size * 1.2 (six fifths per point) is a whole number;   *)
(* a pixel count n is Px(n).  `x // 2` is the floor of x / 2 as a whole    *)
(* number of pixels, for an int and for a float alike.                     *)
(***************************************************************************)
Unit == 5

Px(n) == Unit * n

FloorDiv2(x) == Unit * (x \div (2 * Unit))

(***************************************************************************)
(* _parse_position and _calculate_text_position                            *)
(***************************************************************************)
NamePosition(s) == [kind |-> "name", name |-> s, box |-> <<>>]

BoxPosition(a, b, c, d) == [kind |-> "box", name |-> <<>>, box |-> <<Px(a), Px(b), Px(c), Px(d)>>]

Center == <<"c", "e", "n", "t", "e", "r">>

\* a parser that falls back to "top" on a field that is no integer
InvalidPosition_Top == NamePosition(<<"t", "o", "p">>)

\* lines 334-336: the fallback on a field that is no integer
InvalidPosition == NamePosition(Center)

\* lines 328-339: a parenthesized string; only four fields are converted
ParenthesizedPosition(position_str) ==
    LET coords == Split(strip(position_str, {"(", ")"}), ",")
    IN  IF Len(coords) = 4
        THEN IF \A i \in 1..4 : int(coords[i]).ok
             THEN BoxPosition(int(coords[1]).val, int(coords[2]).val,
                              int(coords[3]).val, int(coords[4]).val)
             ELSE InvalidPosition
        ELSE NamePosition(position_str)

_parse_position(position_str) ==
    IF Falsy(position_str) THEN NamePosition(Center)
    ELSE IF startswith(position_str, "(") /\ endswith(position_str, ")")
    THEN ParenthesizedPosition(position_str)
    ELSE NamePosition(position_str)

\* a "top" that starts at the padding, like "top-left"
AnchorTop_FromPadding(img_width, img_height, text_width, text_height, padding) ==
    << padding, padding, padding + text_width, padding + text_height >>

\* lines 422-428
AnchorTop(img_width, img_height, text_width, text_height, padding) ==
    << FloorDiv2(img_width - text_width), padding,
       FloorDiv2(img_width + text_width), padding + text_height >>

\* a "bottom" that ignores the padding
AnchorBottom_NoPadding(img_width, img_height, text_width, text_height, padding) ==
    << FloorDiv2(img_width - text_width), img_height - text_height,
       FloorDiv2(img_width + text_width), img_height >>

\* lines 429-435
AnchorBottom(img_width, img_height, text_width, text_height, padding) ==
    << FloorDiv2(img_width - text_width), img_height - text_height - padding,
       FloorDiv2(img_width + text_width), img_height - padding >>

\* a centre whose far corner is the half rounded up
AnchorCenter_HalfUp(img_width, img_height, text_width, text_height, padding) ==
    << FloorDiv2(img_width - text_width), FloorDiv2(img_height - text_height),
       FloorDiv2(img_width + text_width + Unit), FloorDiv2(img_height + text_height + Unit) >>

\* lines 436-442
AnchorCenter(img_width, img_height, text_width, text_height, padding) ==
    << FloorDiv2(img_width - text_width), FloorDiv2(img_height - text_height),
       FloorDiv2(img_width + text_width), FloorDiv2(img_height + text_height) >>

\* a top-left placement that leaves the padding out of the far corner
AnchorTopLeft_NoPadding(img_width, img_height, text_width, text_height, padding) ==
    << padding, padding, text_width, text_height >>

\* lines 443-449
AnchorTopLeft(img_width, img_height, text_width, text_height, padding) ==
    << padding, padding, padding + text_width, padding + text_height >>

\* lines 450-456
AnchorTopRight(img_width, img_height, text_width, text_height, padding) ==
    << img_width - text_width - padding, padding,
       img_width - padding, padding + text_height >>

\* lines 457-463
AnchorBottomLeft(img_width, img_height, text_width, text_height, padding) ==
    << padding, img_height - text_height - padding,
       padding + text_width, img_height - padding >>

\* lines 464-470
AnchorBottomRight(img_width, img_height, text_width, text_height, padding) ==
    << img_width - text_width - padding, img_height - text_height - padding,
       img_width - padding, img_height - padding >>

\* lines 471-477
AnchorCenterLeft(img_width, img_height, text_width, text_height, padding) ==
    << padding, FloorDiv2(img_height - text_height),
       padding + text_width, FloorDiv2(img_height + text_height) >>

\* lines 478-484
AnchorCenterRight(img_width, img_height, text_width, text_height, padding) ==
    << img_width - text_width - padding, FloorDiv2(img_height - text_height),
       img_width - padding, FloorDiv2(img_height + text_height) >>

\* a fallback that places an unrecognized name at the top-left corner
AnchorFallback_TopLeft(img_width, img_height, text_width, text_height, padding) ==
    << padding, padding, padding + text_width, padding + text_height >>

\* lines 485-491: any other name
AnchorFallback(img_width, img_height, text_width, text_height, padding) ==
    << FloorDiv2(img_width - text_width), FloorDiv2(img_height - text_height),
       FloorDiv2(img_width + text_width), FloorDiv2(img_height + text_height) >>

\* a placement that moves the corners of the box into the canvas
ExplicitBox_Clamped(position, img_width, img_height) ==
    << Max(0, Min(position.box[1], img_width)), Max(0, Min(position.box[2], img_height)),
       Max(0, Min(position.box[3], img_width)), Max(0, Min(position.box[4], img_height)) >>

\* lines 417-418: return position
ExplicitBox(position, img_width, img_height) == position.box

_calculate_text_position(position, img_width, img_height, text_width, text_height, padding) ==
    IF position.kind = "box" /\ Len(position.box) = 4
    THEN ExplicitBox(position, img_width, img_height)
    ELSE LET position_str == lower(position.name)
         IN  CASE position_str = <<"t", "o", "p">> ->
                    AnchorTop(img_width, img_height, text_width, text_height, padding)
               [] position_str = <<"b", "o", "t", "t", "o", "m">> ->
                    AnchorBottom(img_width, img_height, text_width, text_height, padding)
               [] position_str = <<"c", "e", "n", "t", "e", "r">> ->
                    AnchorCenter(img_width, img_height, text_width, text_height, padding)
               [] position_str = <<"t", "o", "p", "-", "l", "e", "f", "t">> ->
                    AnchorTopLeft(img_width, img_height, text_width, text_height, padding)
               [] position_str = <<"t", "o", "p", "-", "r", "i", "g", "h", "t">> ->
                    AnchorTopRight(img_width, img_height, text_width, text_height, padding)
               [] position_str = <<"b", "o", "t", "t", "o", "m", "-", "l", "e", "f", "t">> ->
                    AnchorBottomLeft(img_width, img_height, text_width, text_height, padding)
               [] position_str = <<"b", "o", "t", "t", "o", "m", "-", "r", "i", "g", "h", "t">> ->
                    AnchorBottomRight(img_width, img_height, text_width, text_height, padding)
               [] position_str = <<"c", "e", "n", "t", "e", "r", "-", "l", "e", "f", "t">> ->
                    AnchorCenterLeft(img_width, img_height, text_width, text_height, padding)
               [] position_str = <<"c", "e", "n", "t", "e", "r", "-", "r", "i", "g", "h", "t">> ->
                    AnchorCenterRight(img_width, img_height, text_width, text_height, padding)
               [] OTHER ->
                    AnchorFallback(img_width, img_height, text_width, text_height, padding)

\* the nine anchors
Anchors ==
    { <<"t", "o", "p">>, <<"b", "o", "t", "t", "o", "m">>, <<"c", "e", "n", "t", "e", "r">>, <<"t", "o", "p", "-", "l", "e", "f", "t">>, <<"t", "o", "p", "-", "r", "i", "g", "h", "t">>, <<"b", "o", "t", "t", "o", "m", "-", "l", "e", "f", "t">>,
      <<"b", "o", "t", "t", "o", "m", "-", "r", "i", "g", "h", "t">>, <<"c", "e", "n", "t", "e", "r", "-", "l", "e", "f", "t">>, <<"c", "e", "n", "t", "e", "r", "-", "r", "i", "g", "h", "t">> }

\* anchors in other cases, and names that are no anchor
OtherNames ==
    { <<"T", "O", "P">>, <<"B", "o", "t", "t", "o", "m", "-", "R", "i", "g", "h", "t">>, <<"T", "o", "p", "-", "L", "e", "f", "t">>, <<"C", "E", "N", "T", "E", "R">>, <<"m", "i", "d", "d", "l", "e">>, <<"l", "e", "f", "t">>, <<"t", "o", "p", " ", "l", "e", "f", "t">>,
      <<"c", "e", "n", "t", "r", "e">>, <<"(", "1", ",", "1", ",", "1", ",", "1">>, <<"1", ",", "1", ",", "1", ",", "1", ")">>, <<"(", "(", "1", ",", "1", ",", "1", ",", "1", ")", ")">>, <<"(", "1", ".", "5", ",", "1", ",", "1", ",", "1", ")">> }

PositionTexts ==
    {None, <<>>} \cup Anchors \cup OtherNames \cup SmallStrings
        \cup {FieldsText(fl) : fl \in FieldLists}

\* canvas sizes, padded block sizes and paddings, in pixels
MaxSide == 9

Geometries ==
    [ W : {0, 4, MaxSide}, H : {3, MaxSide - 1}, tw : {0, 3, 6, MaxSide + 2},
      th : {1, 4}, p : {0, 1, 3} ]

CoreGeometries == { g \in Geometries : g.W = 4 /\ g.H = 3 /\ g.th = 1 /\ g.tw \in {3, 6} /\ g.p \in {0, 1} }

\* boxes outside the canvas, with corners in reverse order, and inside it
BoxSamples ==
    { <<"(", "2", "0", ",", "-", "3", ",", "1", ",", "1", ")">>,
      <<"(", "-", "3", ",", "-", "3", ",", "2", "0", ",", "2", "0", ")">>,
      <<"(", "1", ",", "1", ",", "1", ",", "1", ")">> }

PositionCases ==
    { <<s, g>> : s \in PositionTexts, g \in CoreGeometries }
        \cup { <<s, g>> : s \in Anchors \cup OtherNames \cup BoxSamples \cup {None}, g \in Geometries }

\* the texts of four integers, with the integers they stand for
BoxTexts ==
    { [text |-> FieldsText(fl), box |-> <<fl[1].val, fl[2].val, fl[3].val, fl[4].val>>] :
          fl \in {x \in [1..4 -> FieldTexts] : \A i \in 1..4 : x[i].ok} }

InitPosition ==
    /\ call_count = 0
    /\ invocations = 0
    /\ first_approved = 0
    /\ model_calls = 0
    /\ vresult = NoResult
    /\ batch = NoBatch
    /\ fs = NoFiles
    /\ \E c \in PositionCases :
          call = [fn |-> "_calculate_text_position", done |-> FALSE,
                  position_str |-> c[1], g |-> c[2]]

\* _parse_position, then _calculate_text_position on what it returns
ResolvePosition ==
    /\ call.fn = "_calculate_text_position"
    /\ ~call.done
    /\ LET position == _parse_position(call.position_str)
           g == call.g
       IN  call' = [fn |-> "_calculate_text_position", done |-> TRUE,
                    position_str |-> call.position_str, g |-> g,
                    position |-> position,
                    ret |-> _calculate_text_position(position, Px(g.W), Px(g.H),
                                                     Px(g.tw), Px(g.th), Px(g.p))]
    /\ UNCHANGED <<call_count, invocations, first_approved, model_calls, vresult, batch, fs>>

NextPosition == ResolvePosition

SpecPosition == InitPosition /\ [][NextPosition]_vars

\* floor(n / 2) for a pixel count
Half(n) == n \div 2

\* the texts of integers among the fields
IntegerTexts == {ft.text : ft \in {x \in FieldTexts : x.ok}}

\* a string that _parse_position can read as four integers: it starts with
\* "(" and ends with ")", and between its leading and trailing parentheses
\* stand four comma-separated integers
IsBoxText(s) ==
    /\ s # None
    /\ startswith(s, "(") /\ endswith(s, ")")
    /\ \E a \in 1..Len(s), b \in 1..Len(s) :
          /\ a < b
          /\ \A i \in (1..a) \cup (b..Len(s)) : s[i] \in {"(", ")"}
          /\ s[a + 1] \notin {"(", ")"} /\ s[b - 1] \notin {"(", ")"}
          /\ LET parts == Split(SubSeq(s, a + 1, b - 1), ",")
             IN  Len(parts) = 4 /\ \A i \in 1..4 : parts[i] \in IntegerTexts

\* one of the nine anchors, in any case
IsAnchorText(s) == s # None /\ lower(s) \in Anchors

\* C7: a position string that is neither an anchor (in any case) nor
\* readable as four integers resolves to the rectangle of "center"; the text of
\* four integers parses to those integers.
C7_UnknownPositionIsCenter ==
    (call.fn = "_calculate_text_position" /\ call.done) =>
        /\ (~IsAnchorText(call.position_str) /\ ~IsBoxText(call.position_str)) =>
              call.ret = << Px(Half(call.g.W - call.g.tw)), Px(Half(call.g.H - call.g.th)),
                            Px(Half(call.g.W + call.g.tw)), Px(Half(call.g.H + call.g.th)) >>
        /\ \A bt \in BoxTexts :
              call.position_str = bt.text =>
                  /\ call.position.kind = "box"
                  /\ call.position.box = << Px(bt.box[1]), Px(bt.box[2]), Px(bt.box[3]), Px(bt.box[4]) >>

\* C7 witness: a four-field tuple with a field that is no integer, resolved
\* on a canvas where the centre rectangle differs from every corner one.
C7_Witness ==
    /\ call.fn = "_calculate_text_position" /\ call.done
    /\ call.position_str = <<"(", "1", ",", "x", ",", "2", "0", ",", "-", "3", ")">>
    /\ call.g.p = 1 /\ call.g.tw = 6
    /\ call.ret = << Px(0 - 1), Px(1), Px(5), Px(2) >>

\* C8: "top-left" gives (p, p, p + tw, p + th) and "bottom-right" gives
\* (W - tw - p, H - th - p, W - p, H - p).
C8_CornerAnchors ==
    (call.fn = "_calculate_text_position" /\ call.done) =>
        LET g == call.g
        IN  /\ call.position_str = <<"t", "o", "p", "-", "l", "e", "f", "t">> =>
                  call.ret = << Px(g.p), Px(g.p), Px(g.p + g.tw), Px(g.p + g.th) >>
            /\ call.position_str = <<"b", "o", "t", "t", "o", "m", "-", "r", "i", "g", "h", "t">> =>
                  call.ret = << Px(g.W - g.tw - g.p), Px(g.H - g.th - g.p),
                                Px(g.W - g.p), Px(g.H - g.p) >>

\* C8 witness: "bottom-right" with a block wider than the canvas and a
\* padding, so that the left edge is negative
C8_Witness ==
    /\ call.fn = "_calculate_text_position" /\ call.done
    /\ call.position_str = <<"b", "o", "t", "t", "o", "m", "-", "r", "i", "g", "h", "t">>
    /\ call.g.p = 3 /\ call.g.tw > call.g.W
    /\ call.ret[1] < 0
    /\ call.ret[3] = Px(call.g.W - 3)

(***************************************************************************)
(* Fonts.  A font file is named by its path; `installed` is the set of     *)
(* font files the system can load.  A loaded font is the file with the     *)
(* size it was loaded at.                                                  *)
(***************************************************************************)
\* ImageFont.load_default()
load_default == [file |-> <<"default">>, size |-> 10]

\* ImageFont.truetype(file, size): ok = FALSE stands for the exception
truetype(file, size, installed) ==
    IF file \in installed /\ size > 0
    THEN [ok |-> TRUE, font |-> [file |-> file, size |-> size]]
    ELSE [ok |-> FALSE, font |-> load_default]

_validate_font(font_name, installed) ==
    IF Falsy(font_name) THEN None
    ELSE IF truetype(font_name \o <<".", "t", "t", "f">>, 12, installed).ok THEN font_name
    ELSE None

BoldFonts ==
    << <<"A", "r", "i", "a", "l", "-", "B", "o", "l", "d", ".", "t", "t", "f">>, <<"a", "r", "i", "a", "l", "b", "d", ".", "t", "t", "f">>,
       <<"V", "e", "r", "d", "a", "n", "a", "-", "B", "o", "l", "d", ".", "t", "t", "f">>, <<"v", "e", "r", "d", "a", "n", "a", "b", ".", "t", "t", "f">>,
       <<"T", "i", "m", "e", "s", "-", "B", "o", "l", "d", ".", "t", "t", "f">>, <<"t", "i", "m", "e", "s", "b", "d", ".", "t", "t", "f">>,
       <<"T", "i", "m", "e", "s", "N", "e", "w", "R", "o", "m", "a", "n", "-", "B", "o", "l", "d", ".", "t", "t", "f">>, <<"t", "i", "m", "e", "s", "n", "e", "w", "r", "o", "m", "a", "n", "b", "d", ".", "t", "t", "f">>,
       <<"D", "e", "j", "a", "V", "u", "S", "a", "n", "s", "-", "B", "o", "l", "d", ".", "t", "t", "f">>,
       <<"R", "o", "b", "o", "t", "o", "-", "B", "o", "l", "d", ".", "t", "t", "f">>,
       <<"O", "p", "e", "n", "S", "a", "n", "s", "-", "B", "o", "l", "d", ".", "t", "t", "f">> >>

ItalicFonts ==
    << <<"A", "r", "i", "a", "l", "-", "I", "t", "a", "l", "i", "c", ".", "t", "t", "f">>, <<"a", "r", "i", "a", "l", "i", ".", "t", "t", "f">>,
       <<"V", "e", "r", "d", "a", "n", "a", "-", "I", "t", "a", "l", "i", "c", ".", "t", "t", "f">>, <<"v", "e", "r", "d", "a", "n", "a", "i", ".", "t", "t", "f">>,
       <<"T", "i", "m", "e", "s", "-", "I", "t", "a", "l", "i", "c", ".", "t", "t", "f">>, <<"t", "i", "m", "e", "s", "i", ".", "t", "t", "f">>,
       <<"T", "i", "m", "e", "s", "N", "e", "w", "R", "o", "m", "a", "n", "-", "I", "t", "a", "l", "i", "c", ".", "t", "t", "f">>, <<"t", "i", "m", "e", "s", "n", "e", "w", "r", "o", "m", "a", "n", ".", "t", "t", "f">>,
       <<"D", "e", "j", "a", "V", "u", "S", "a", "n", "s", "-", "I", "t", "a", "l", "i", "c", ".", "t", "t", "f">>,
       <<"R", "o", "b", "o", "t", "o", "-", "I", "t", "a", "l", "i", "c", ".", "t", "t", "f">>,
       <<"O", "p", "e", "n", "S", "a", "n", "s", "-", "I", "t", "a", "l", "i", "c", ".", "t", "t", "f">> >>

RegularFonts ==
    << <<"A", "r", "i", "a", "l", ".", "t", "t", "f">>, <<"a", "r", "i", "a", "l", ".", "t", "t", "f">>,
       <<"V", "e", "r", "d", "a", "n", "a", ".", "t", "t", "f">>, <<"v", "e", "r", "d", "a", "n", "a", ".", "t", "t", "f">>,
       <<"T", "i", "m", "e", "s", ".", "t", "t", "f">>, <<"t", "i", "m", "e", "s", ".", "t", "t", "f">>,
       <<"T", "i", "m", "e", "s", "N", "e", "w", "R", "o", "m", "a", "n", ".", "t", "t", "f">>, <<"t", "i", "m", "e", "s", "n", "e", "w", "r", "o", "m", "a", "n", ".", "t", "t", "f">>,
       <<"D", "e", "j", "a", "V", "u", "S", "a", "n", "s", ".", "t", "t", "f">>,
       <<"R", "o", "b", "o", "t", "o", "-", "R", "e", "g", "u", "l", "a", "r", ".", "t", "t", "f">>,
       <<"O", "p", "e", "n", "S", "a", "n", "s", "-", "R", "e", "g", "u", "l", "a", "r", ".", "t", "t", "f">> >>

common_fonts(bold, italic) ==
    (IF bold THEN BoldFonts ELSE <<>>) \o (IF italic THEN ItalicFonts ELSE <<>>) \o RegularFonts

\* the first font of the list that loads, else the built-in default
RECURSIVE FirstLoadable(_, _, _)
FirstLoadable(fonts, font_size, installed) ==
    IF fonts = <<>> THEN load_default
    ELSE IF truetype(Head(fonts), font_size, installed).ok
         THEN truetype(Head(fonts), font_size, installed).font
         ELSE FirstLoadable(Tail(fonts), font_size, installed)

_get_font(font_name, font_size, bold, italic, installed) ==
    IF ~Falsy(font_name)
    THEN LET style == (IF bold THEN <<"B", "o", "l", "d">> ELSE <<>>) \o (IF italic THEN <<"I", "t", "a", "l", "i", "c">> ELSE <<>>)
         IN  truetype(font_name \o style \o <<".", "t", "t", "f">>, font_size, installed).font
    ELSE FirstLoadable(common_fonts(bold, italic), font_size, installed)

\* the advance of one character, in pixels
Advance(c, font) ==
    IF font.file = load_default.file THEN 1
    ELSE IF c \in {"W", "M"} THEN 4 ELSE 1

\* draw.textbbox((0, 0), line, font=font)[2]: the right edge of the line
RECURSIVE textbbox_right(_, _)
textbbox_right(line, font) ==
    IF line = <<>> THEN 0
    ELSE Px(Advance(Head(line), font)) + textbbox_right(Tail(line), font)

(***************************************************************************)
(* _wrap_text                                                              *)
(***************************************************************************)
MaxTextLen == 5
MaxWrapWidth == 5

Whitespace == {" ", "\n", "\t"}

\* str.split() without a separator: the maximal runs of non-blank characters
RECURSIVE SplitWords(_)
SplitWords(s) ==
    LET t == lstrip(s, Whitespace)
    IN  IF t = <<>> THEN <<>>
        ELSE LET k == CHOOSE i \in 1..(Len(t) + 1) :
                          /\ i = Len(t) + 1 \/ t[i] \in Whitespace
                          /\ \A j \in 1..(i - 1) : t[j] \notin Whitespace
             IN  <<SubSeq(t, 1, k - 1)>> \o SplitWords(SubSeq(t, k, Len(t)))

TestLineFits_Always(test_width, max_width) == TRUE

\* if test_width <= max_width
TestLineFits(test_width, max_width) == test_width <= max_width

\* a loop that stops after the first line
WrapWords_FirstLine(words, current_line, font, max_width) == <<current_line>>

\* the loop over words[1:] of one paragraph
RECURSIVE WrapWords(_, _, _, _)
WrapWords(words, current_line, font, max_width) ==
    IF words = <<>> THEN <<current_line>>
    ELSE LET test_line == current_line \o <<" ">> \o Head(words)
         IN  IF TestLineFits(textbbox_right(test_line, font), max_width)
             THEN WrapWords(Tail(words), test_line, font, max_width)
             ELSE <<current_line>> \o WrapWords(Tail(words), Head(words), font, max_width)

\* a wrapping that returns the paragraph as it stands
WrapParagraph_Verbatim(paragraph, font, max_width) == <<paragraph>>

WrapParagraph(paragraph, font, max_width) ==
    LET words == SplitWords(paragraph)
    IN  IF words = <<>> THEN << <<>> >>
        ELSE WrapWords(Tail(words), Head(words), font, max_width)

RECURSIVE WrapParagraphs(_, _, _)
WrapParagraphs(paragraphs, font, max_width) ==
    IF paragraphs = <<>> THEN <<>>
    ELSE WrapParagraph(Head(paragraphs), font, max_width)
             \o WrapParagraphs(Tail(paragraphs), font, max_width)

_wrap_text(text, font, max_width) == WrapParagraphs(Split(text, "\n"), font, max_width)

WrapAlphabet == {"i", "W", " ", "\n"}

WrapTexts == SeqsUpTo(WrapAlphabet, MaxTextLen)

\* the widths in pixels: img.width - 2 * padding is negative for a narrow image
WrapWidths == (0 - 1)..MaxWrapWidth

WrapFonts == {load_default, [file |-> <<"A", "r", "i", "a", "l", ".", "t", "t", "f">>, size |-> 24]}

InitWrap ==
    /\ call_count = 0 /\ invocations = 0 /\ first_approved = 0 /\ model_calls = 0
    /\ vresult = NoResult /\ batch = NoBatch /\ fs = NoFiles
    /\ \E text \in WrapTexts, m \in WrapWidths, font \in WrapFonts :
           call = [fn |-> "_wrap_text", text |-> text, font |-> font,
                   max_width |-> Px(m), done |-> FALSE, lines |-> <<>>]

WrapText ==
    /\ call.fn = "_wrap_text" /\ ~call.done
    /\ call' = [call EXCEPT !.done = TRUE,
                            !.lines = _wrap_text(call.text, call.font, call.max_width)]
    /\ UNCHANGED <<call_count, invocations, first_approved, model_calls, vresult, batch, fs>>

NextWrap == WrapText

SpecWrap == InitWrap /\ [][NextWrap]_vars

\* a line made of one whitespace-delimited word
SingleWord(line) == line # <<>> /\ \A i \in 1..Len(line) : line[i] \notin Whitespace

\* C4 as stated: every returned line measures at most max_width, unless it
\* is a single word that is itself wider than max_width.
C4_LineFitsOrIsOneWideWord ==
    (call.fn = "_wrap_text" /\ call.done) =>
        \A i \in 1..Len(call.lines) :
            \/ textbbox_right(call.lines[i], call.font) <= call.max_width
            \/ /\ SingleWord(call.lines[i])
               /\ textbbox_right(call.lines[i], call.font) > call.max_width

\* C4: every line returned by _wrap_text measures at most max_width, or is
\* one word of the text, unsplit, that is itself wider than max_width, or
\* is the empty line of a paragraph without words (which measures 0 and
\* so exceeds a negative max_width).
C4_LineFitsOrIsOneWideWordOrEmpty ==
    (call.fn = "_wrap_text" /\ call.done) =>
        \A i \in 1..Len(call.lines) :
            \/ textbbox_right(call.lines[i], call.font) <= call.max_width
            \/ /\ SingleWord(call.lines[i])
               /\ call.lines[i] \in Range(SplitWords(call.text))
               /\ textbbox_right(call.lines[i], call.font) > call.max_width
            \/ /\ call.lines[i] = <<>>
               /\ call.max_width < 0
               /\ \E k \in 1..Len(Split(call.text, "\n")) :
                      SplitWords(Split(call.text, "\n")[k]) = <<>>

\* C4 witness: a wrapped text with a line of two words that fits and a
\* line of one word wider than max_width
C4_Witness ==
    /\ call.fn = "_wrap_text" /\ call.done
    /\ call.max_width = Px(3)
    /\ call.lines = << <<"i", " ", "i">>, <<"W">> >>
    /\ textbbox_right(call.lines[2], call.font) > call.max_width

(***************************************************************************)
(* Files and pictures.  The file system maps the paths that exist to the   *)
(* pictures stored there; a picture is its size in pixels and the          *)
(* operations drawn on it.  Pictures are RGB.                              *)
(***************************************************************************)
Picture(w, h) == [size |-> <<w, h>>, ops |-> <<>>]

\* os.path.exists(path)
exists(path, files) == path \in DOMAIN files

\* the last position of character c in p, 0 when there is none (str.rfind)
rfind(p, c) ==
    IF \E i \in 1..Len(p) : p[i] = c
    THEN CHOOSE i \in 1..Len(p) : p[i] = c /\ \A j \in (i + 1)..Len(p) : p[j] # c
    ELSE 0

\* os.path.splitext(p): the extension starts at the last dot of the last
\* path component, unless only dots precede it there
splitext(p) ==
    LET sepIndex == rfind(p, "/")
        dotIndex == rfind(p, ".")
    IN  IF dotIndex > sepIndex /\ \E i \in (sepIndex + 1)..(dotIndex - 1) : p[i] # "."
        THEN <<SubSeq(p, 1, dotIndex - 1), SubSeq(p, dotIndex, Len(p))>>
        ELSE <<p, <<>>>>

\* a derivation that writes over the source when no path is given
_create_output_path_InPlace(image_path, output_path, suffix) ==
    IF output_path = None THEN image_path ELSE output_path

\* a derivation that appends the suffix after the extension
_create_output_path_Appended(image_path, output_path, suffix) ==
    IF output_path = None THEN image_path \o suffix ELSE output_path

_create_output_path(image_path, output_path, suffix) ==
    IF output_path = None
    THEN splitext(image_path)[1] \o suffix \o splitext(image_path)[2]
    ELSE output_path

\* the extensions Image.save finds a format for, among those of the model
SaveExtensions == { <<".", "p", "n", "g">>, <<".", "j", "p", "g">>, <<".", "j", "p", "e", "g">> }

\* Image.save(path): ok = FALSE stands for ValueError (unknown file
\* extension), raised before the file is opened
save(img, path, files) ==
    IF lower(splitext(path)[2]) \in SaveExtensions
    THEN [ok |-> TRUE,
          files |-> [p \in DOMAIN files \cup {path} |-> IF p = path THEN img ELSE files[p]]]
    ELSE [ok |-> FALSE, files |-> files]

\* the colour names the imaging library knows, among those of the model
KnownColors == { Black, White, <<"g", "r", "a", "y">>, <<"r", "e", "d">> }

\* a colour the imaging library accepts: a tuple, or a known name
ValidColor(color) == color.kind = "rgb" \/ color.name \in KnownColors

(***************************************************************************)
(* Optional numbers and flags: <<>> is None, <<v>> is the value v.         *)
(***************************************************************************)
Nothing == <<>>

Some(v) == <<v>>

\* `value or default` for an optional integer: None and 0 give the default
OrNumber(value, default) ==
    IF value = Nothing THEN default
    ELSE IF value[1] = 0 THEN default ELSE value[1]

\* `value if value is not None else default`
IfNotNone(value, default) == IF value = Nothing THEN default ELSE value[1]

\* `value or default` for an optional string
OrString(value, default) == IF Falsy(value) THEN default ELSE value

\* a ratio as a fraction; int(n * ratio) truncates the product
Ratio(num, den) == [num |-> num, den |-> den]

\* round(n * ratio), halves to the even neighbour
IntOfProduct_Rounded(n, ratio) ==
    LET q == (n * ratio.num) \div ratio.den
        rem == (n * ratio.num) % ratio.den
    IN  IF 2 * rem > ratio.den THEN q + 1
        ELSE IF 2 * rem < ratio.den THEN q
        ELSE IF q % 2 = 0 THEN q ELSE q + 1

\* int(n * ratio), for a ratio that is not negative
IntOfProduct(n, ratio) == (n * ratio.num) \div ratio.den

(***************************************************************************)
(* add_text_to_image and add_text_next_to_image.  Lengths are in fifths    *)
(* of a pixel (Px); the line height font_size * 1.2 is taken as exactly    *)
(* six fifths of font_size, without the rounding of the float product.     *)
(***************************************************************************)
\* the width of the first line taken for the width of the block
MaxLineWidth_First(lines, font) ==
    IF lines = <<>> THEN 0 ELSE textbbox_right(Head(lines), font)

RECURSIVE MaxLineWidth(_, _)
MaxLineWidth(lines, font) ==
    IF lines = <<>> THEN 0
    ELSE Max(textbbox_right(Head(lines), font), MaxLineWidth(Tail(lines), font))

\* line_height = font_size * 1.2
LineHeight(font_size) == (12 * Px(font_size)) \div 10

TextOp(x, y, line, fill) == [op |-> "text", xy |-> <<x, y>>, line |-> line, fill |-> fill]

\* a line whose shadow is drawn over it, after the text
LineOps_ShadowLast(i, line, font, line_height, text_color, text_box, y, align, padding, shadow) ==
    LET line_width == textbbox_right(line, font)
        line_x == IF align = <<"l", "e", "f", "t">> THEN text_box[1] + padding
                  ELSE IF align = <<"r", "i", "g", "h", "t">> THEN text_box[3] - padding - line_width
                  ELSE text_box[1] + FloorDiv2(text_box[3] - text_box[1] - line_width)
        line_y == y + i * line_height
    IN  <<TextOp(line_x, line_y, line, text_color)>>
            \o (IF shadow THEN <<TextOp(line_x + Px(2), line_y + Px(2), line, NameColor(<<"g", "r", "a", "y">>))>>
                ELSE <<>>)

\* lines 606-623: the draw operations of line number i (from 0)
LineOps(i, line, font, line_height, text_color, text_box, y, align, padding, shadow) ==
    LET left == text_box[1]
        right == text_box[3]
        line_width == textbbox_right(line, font)
        line_x == IF align = <<"l", "e", "f", "t">> THEN left + padding
                  ELSE IF align = <<"r", "i", "g", "h", "t">> THEN right - padding - line_width
                  ELSE left + FloorDiv2(right - left - line_width)
        line_y == y + i * line_height
    IN  (IF shadow THEN <<TextOp(line_x + Px(2), line_y + Px(2), line, NameColor(<<"g", "r", "a", "y">>))>>
         ELSE <<>>)
            \o <<TextOp(line_x, line_y, line, text_color)>>

RECURSIVE LinesOps(_, _, _, _, _, _, _, _, _, _)
LinesOps(i, lines, font, line_height, text_color, text_box, y, align, padding, shadow) ==
    IF i >= Len(lines) THEN <<>>
    ELSE LineOps(i, lines[i + 1], font, line_height, text_color, text_box, y, align, padding, shadow)
             \o LinesOps(i + 1, lines, font, line_height, text_color, text_box, y, align, padding, shadow)

\* lines 592-623 (and their copy, 736-766): the text drawn in text_box
DrawText(lines, font, font_size, text_color, text_box, align, vertical_align, padding, shadow) ==
    LET top == text_box[2]
        bottom == text_box[4]
        line_height == LineHeight(font_size)
        total_text_height == Len(lines) * line_height
        y == IF vertical_align = <<"t", "o", "p">> THEN top + padding
             ELSE IF vertical_align = <<"b", "o", "t", "t", "o", "m">> THEN bottom - padding - total_text_height
             ELSE top + FloorDiv2(bottom - top - total_text_height)
    IN  LinesOps(0, lines, font, line_height, text_color, text_box, y, align, padding, shadow)

NoLayout ==
    [final_output_path |-> None, font |-> load_default, font_size |-> 0, padding |-> 0,
     size |-> <<0, 0>>, paste_position |-> <<0, 0>>, text_box |-> <<0, 0, 0, 0>>,
     lines |-> <<>>, ops |-> <<>>]

\* an invocation that raised exc, a returned one has exc = "none"
Raise(exc, files, layout) == [exc |-> exc, ret |-> None, files |-> files, layout |-> layout]

\* a handler that creates the file before it fails
NotFound_Created(image_path, files) ==
    Raise("FileNotFoundError",
          [p \in DOMAIN files \cup {image_path} |->
               IF p = image_path THEN Picture(1, 1) ELSE files[p]],
          NoLayout)

\* lines 549-550, 685-686: raise FileNotFoundError(...)
NotFound(image_path, files) == Raise("FileNotFoundError", files, NoLayout)

\* lines 625-628, 767-770: save, then return the path
SaveAndReturn(img, layout, files) ==
    IF save(img, layout.final_output_path, files).ok
    THEN [exc |-> "none", ret |-> layout.final_output_path,
          files |-> save(img, layout.final_output_path, files).files, layout |-> layout]
    ELSE Raise("ValueError", files, layout)

\* draw.rectangle(box): a library that checks the corners rejects a box
\* whose right or bottom edge lies before its left or top edge
RectangleOk(box, strict) == ~strict \/ (box[3] >= box[1] /\ box[4] >= box[2])

add_text_to_image(a, files, installed, strict) ==
    LET position_str == OrString(a.position_str, Center)
        font_size == OrNumber(a.font_size, 24)
        text_color_str == OrString(a.text_color_str, Black)
        background_color_str == OrString(a.background_color_str, White)
        align == OrString(a.align, <<"c", "e", "n", "t", "e", "r">>)
        vertical_align == OrString(a.vertical_align, <<"m", "i", "d", "d", "l", "e">>)
        padding == OrNumber(a.padding, 10)
        bold == IfNotNone(a.bold, FALSE)
        italic == IfNotNone(a.italic, FALSE)
        shadow == IfNotNone(a.shadow, FALSE)
    IN  IF ~exists(a.image_path, files) THEN NotFound(a.image_path, files)
        ELSE
        LET img == files[a.image_path]
            final_output_path == _create_output_path(a.image_path, a.output_path, <<"_", "w", "i", "t", "h", "_", "t", "e", "x", "t">>)
            font_name == _validate_font(a.font_name, installed)
            font == _get_font(font_name, font_size, bold, italic, installed)
            text_color == _parse_color(text_color_str, "text")
            background_color == _parse_color(background_color_str, "background")
            position == _parse_position(position_str)
            max_width == Px(img.size[1] - (2 * padding))
            lines == _wrap_text(a.text, font, max_width)
            total_text_height == Len(lines) * LineHeight(font_size)
            max_line_width == MaxLineWidth(lines, font)
            text_box == _calculate_text_position(position, Px(img.size[1]), Px(img.size[2]),
                            max_line_width + Px(2 * padding),
                            total_text_height + Px(2 * padding), Px(padding))
            ops == <<[op |-> "rectangle", box |-> text_box, fill |-> background_color]>>
                       \o DrawText(lines, font, font_size, text_color, text_box,
                                   align, vertical_align, Px(padding), shadow)
            layout == [final_output_path |-> final_output_path, font |-> font,
                       font_size |-> font_size, padding |-> padding,
                       size |-> img.size, paste_position |-> <<0, 0>>,
                       text_box |-> text_box, lines |-> lines, ops |-> ops]
        IN  IF ~ValidColor(background_color) \/ ~RectangleOk(text_box, strict)
                  \/ ~ValidColor(text_color)
            THEN Raise("ValueError", files, layout)
            ELSE SaveAndReturn([size |-> img.size, ops |-> img.ops \o ops], layout, files)

Edges == { <<"l", "e", "f", "t">>, <<"r", "i", "g", "h", "t">>, <<"t", "o", "p">>, <<"b", "o", "t", "t", "o", "m">> }

\* a tool whose default edge is "bottom"
DefaultEdge_Bottom == <<"b", "o", "t", "t", "o", "m">>

\* line 697: position = "right"
DefaultEdge == <<"r", "i", "g", "h", "t">>

\* a paste in the corner of the canvas for every edge
PastePosition_Corner(position, text_width, text_height) == <<0, 0>>

\* lines 708-720: where the original picture is pasted
PastePosition(position, text_width, text_height) ==
    IF position = <<"l", "e", "f", "t">> THEN <<text_width, 0>>
    ELSE IF position = <<"t", "o", "p">> THEN <<0, text_height>>
    ELSE <<0, 0>>

add_text_next_to_image(a, files, installed) ==
    LET position_str == OrString(a.position_str, Center)
        font_size == OrNumber(a.font_size, 24)
        text_color_str == OrString(a.text_color_str, Black)
        align == OrString(a.align, <<"c", "e", "n", "t", "e", "r">>)
        vertical_align == OrString(a.vertical_align, <<"m", "i", "d", "d", "l", "e">>)
        padding == OrNumber(a.padding, 10)
        bold == IfNotNone(a.bold, FALSE)
        italic == IfNotNone(a.italic, FALSE)
        shadow == IfNotNone(a.shadow, FALSE)
        text_width_ratio == IfNotNone(a.text_width_ratio, Ratio(3, 10))
    IN  IF ~exists(a.image_path, files) THEN NotFound(a.image_path, files)
        ELSE
        LET img == files[a.image_path]
            width == img.size[1]
            height == img.size[2]
            final_output_path == _create_output_path(a.image_path, a.output_path, <<"_", "w", "i", "t", "h", "_", "t", "e", "x", "t", "_", "b", "o", "x">>)
            font_name == _validate_font(a.font_name, installed)
            font == _get_font(font_name, font_size, bold, italic, installed)
            text_color == _parse_color(text_color_str, "text")
            background_color == _parse_color(a.background_color_str, "background")
            position == IF lower(position_str) \in Edges THEN lower(position_str) ELSE DefaultEdge
            text_width == IntOfProduct(width, text_width_ratio)
            text_height == IntOfProduct(height, text_width_ratio)
            new_size == IF position \in {<<"l", "e", "f", "t">>, <<"r", "i", "g", "h", "t">>}
                        THEN <<width + text_width, height>>
                        ELSE <<width, height + text_height>>
            paste_position == PastePosition(position, text_width, text_height)
            box == IF position = <<"l", "e", "f", "t">> THEN <<0, 0, text_width, height>>
                   ELSE IF position = <<"r", "i", "g", "h", "t">> THEN <<width, 0, new_size[1], height>>
                   ELSE IF position = <<"t", "o", "p">> THEN <<0, 0, width, text_height>>
                   ELSE <<0, height, width, new_size[2]>>
            text_box == <<Px(box[1]), Px(box[2]), Px(box[3]), Px(box[4])>>
            text_area_width == text_box[3] - text_box[1] - Px(2 * padding)
            lines == _wrap_text(a.text, font, text_area_width)
            ops == << [op |-> "new", size |-> new_size, fill |-> background_color],
                      [op |-> "paste", size |-> img.size, at |-> paste_position] >>
                       \o DrawText(lines, font, font_size, text_color, text_box,
                                   align, vertical_align, Px(padding), shadow)
            layout == [final_output_path |-> final_output_path, font |-> font,
                       font_size |-> font_size, padding |-> padding,
                       size |-> new_size, paste_position |-> paste_position,
                       text_box |-> text_box, lines |-> lines, ops |-> ops]
        IN  IF ~ValidColor(background_color) \/ ~ValidColor(text_color)
            THEN Raise("ValueError", files, layout)
            ELSE SaveAndReturn([size |-> new_size, ops |-> img.ops \o ops], layout, files)

(***************************************************************************)
(* The invocations of the two text tools: the files present, the fonts     *)
(* installed, and the arguments, varied a few at a time around the         *)
(* defaults.                                                               *)
(***************************************************************************)
MaxImageSide == 8

Tools == {"add_text_to_image", "add_text_next_to_image"}

\* the paths that exist, each a picture of the given size
ExistingPaths ==
    { <<"a", ".", "p", "n", "g">>, <<"a", ".", "t", "a", "r", ".", "g", "z">>, <<"d", ".", "x", "/", "a">>, <<".", "p", "n", "g">>, <<"A", ".", "J", "P", "G">>, <<"o", ".", "j", "p", "g">>, <<"a", "_", "w", "i", "t", "h", "_", "t", "e", "x", "t", ".", "p", "n", "g">> }

ToolFiles(size) == [p \in ExistingPaths |-> Picture(size[1], size[2])]

ImagePaths == (ExistingPaths \ {<<"o", ".", "j", "p", "g">>, <<"a", "_", "w", "i", "t", "h", "_", "t", "e", "x", "t", ".", "p", "n", "g">>}) \cup { <<"m", ".", "p", "n", "g">>, <<>> }

OutputPaths == { None, <<>>, <<"o", ".", "j", "p", "g">>, <<"n", ".", "P", "N", "G">>, <<"a", ".", "p", "n", "g">>, <<"o">> }

DefaultArgs ==
    [image_path |-> <<"a", ".", "p", "n", "g">>, text |-> <<"i", " ", "W">>, output_path |-> None,
     position_str |-> None, font_size |-> Nothing, font_name |-> None,
     text_color_str |-> None, background_color_str |-> None,
     align |-> None, vertical_align |-> None, padding |-> Nothing,
     bold |-> Nothing, italic |-> Nothing, shadow |-> Nothing,
     text_width_ratio |-> Nothing]

BaseSize == <<40, 30>>

NoFonts == {}

ToolCall(fn, a, size, installed, strict) ==
    [fn |-> fn, a |-> a, size |-> size, installed |-> installed, strict |-> strict]

PathCalls ==
    { ToolCall(fn, [DefaultArgs EXCEPT !.image_path = ip, !.output_path = op],
               BaseSize, NoFonts, TRUE) :
          fn \in Tools, ip \in ImagePaths, op \in OutputPaths }

EdgeTexts ==
    { None, <<>>, <<"r", "i", "g", "h", "t">>, <<"R", "I", "G", "H", "T">>, <<"l", "e", "f", "t">>,
      <<"t", "o", "p">>, <<"B", "o", "t", "t", "o", "m">>, <<"m", "i", "d", "d", "l", "e">>,
      <<" ", "l", "e", "f", "t">>, <<"c", "e", "n", "t", "e", "r">> }

Ratios == { Ratio(k, 8) : k \in 0..8 }

PanelSizes == { <<w, h>> : w \in 1..MaxImageSide, h \in {1, MaxImageSide - 1} }

PanelCalls ==
    { ToolCall("add_text_next_to_image",
               [DefaultArgs EXCEPT !.position_str = ps, !.text_width_ratio = r, !.padding = p],
               size, NoFonts, TRUE) :
          ps \in EdgeTexts, r \in {Nothing} \cup {Some(x) : x \in Ratios},
          p \in {Nothing, Some(0)}, size \in PanelSizes }

LayoutPositions ==
    { None, <<"t", "o", "p", "-", "l", "e", "f", "t">>, <<"b", "o", "t", "t", "o", "m", "-", "r", "i", "g", "h", "t">>, <<"b", "o", "t", "t", "o", "m">>, <<"(", "1", ",", "2", ",", "3", "0", ",", "2", "0", ")">>, <<"(", "9", ",", "9", ",", "1", ",", "1", ")">> }

LayoutCalls ==
    { ToolCall(fn,
               [DefaultArgs EXCEPT !.position_str = ps, !.align = al, !.vertical_align = va,
                                   !.padding = p, !.font_size = fz, !.shadow = sh],
               BaseSize, NoFonts, strict) :
          fn \in Tools, ps \in LayoutPositions,
          al \in {None, <<"l", "e", "f", "t">>, <<"r", "i", "g", "h", "t">>, <<"j", "u", "s", "t", "i", "f", "y">>},
          va \in {None, <<"t", "o", "p">>, <<"b", "o", "t", "t", "o", "m">>},
          p \in {Nothing, Some(0), Some(2), Some(0 - 1)},
          fz \in {Nothing, Some(0), Some(5), Some(0 - 5)},
          sh \in {Nothing, Some(TRUE)}, strict \in BOOLEAN }

ToolColors == { None, <<"r", "e", "d">>, <<"(", "1", ",", "2", "0", ",", "7", ")">>, <<"(", "1", ",", "1", ")">> }

ColorCalls ==
    { ToolCall(fn, [DefaultArgs EXCEPT !.text_color_str = tc, !.background_color_str = bc],
               BaseSize, NoFonts, TRUE) :
          fn \in Tools, tc \in ToolColors, bc \in ToolColors }

InstalledSets == { NoFonts, {<<"D", "e", "j", "a", "V", "u", "S", "a", "n", "s", ".", "t", "t", "f">>}, {<<"A", "r", "i", "a", "l", ".", "t", "t", "f">>, <<"A", "r", "i", "a", "l", "B", "o", "l", "d", ".", "t", "t", "f">>, <<"A", "r", "i", "a", "l", "-", "B", "o", "l", "d", ".", "t", "t", "f">>} }

FontCalls ==
    { ToolCall(fn, [DefaultArgs EXCEPT !.font_name = fname, !.bold = b, !.italic = it,
                                       !.text = <<"i", " ", "W", "\n", "\n", "W", " ", "W">>],
               BaseSize, installed, TRUE) :
          fn \in Tools, fname \in {None, <<"A", "r", "i", "a", "l">>, <<"N", "o", "p", "e">>},
          b \in {Nothing, Some(TRUE), Some(FALSE)}, it \in {Nothing, Some(TRUE)},
          installed \in InstalledSets }

\* the picture of 800 x 600 with a caption of one to MaxLines lines at the
\* bottom, everything else by default (font size 24, padding 10)
MaxLines == 20

ScenarioSize == <<800, 600>>

RECURSIVE LinesText(_)
LinesText(n) == IF n <= 1 THEN <<"i">> ELSE <<"i", "\n">> \o LinesText(n - 1)

ScenarioCalls ==
    { ToolCall("add_text_to_image",
               [DefaultArgs EXCEPT !.position_str = <<"b", "o", "t", "t", "o", "m">>, !.text = LinesText(n)],
               ScenarioSize, NoFonts, TRUE) : n \in 1..MaxLines }

\* a text of three lines, the second empty, with and without shadow
ShadowCalls ==
    { ToolCall(fn, [DefaultArgs EXCEPT !.shadow = sh, !.align = al,
                                       !.text = <<"i", " ", "W", "\n", "\n", "W", " ", "W">>],
               BaseSize, NoFonts, TRUE) :
          fn \in Tools, sh \in {Nothing, Some(TRUE), Some(FALSE)},
          al \in {None, <<"l", "e", "f", "t">>, <<"r", "i", "g", "h", "t">>, <<"j", "u", "s", "t", "i", "f", "y">>} }

\* every anchor with paddings that leave 20, 14, 4 and 2 pixels for a
\* line of 3 pixels
AnchorCalls ==
    { ToolCall("add_text_to_image", [DefaultArgs EXCEPT !.position_str = ps, !.padding = p],
               BaseSize, NoFonts, TRUE) :
          ps \in Anchors \cup {None}, p \in {Nothing, Some(13), Some(18), Some(19)} }

ToolCalls ==
    PathCalls \cup PanelCalls \cup LayoutCalls \cup ColorCalls \cup FontCalls \cup ScenarioCalls
        \cup ShadowCalls \cup AnchorCalls

NoOutcome == Raise("pending", NoFiles, NoLayout)

InitTools ==
    /\ call_count = 0 /\ invocations = 0 /\ first_approved = 0 /\ model_calls = 0
    /\ vresult = NoResult /\ batch = NoBatch
    /\ \E c \in ToolCalls :
           /\ fs = ToolFiles(c.size)
           /\ call = [fn |-> c.fn, a |-> c.a, installed |-> c.installed, strict |-> c.strict,
                      done |-> FALSE, r |-> NoOutcome]

AddTextToImage ==
    /\ call.fn = "add_text_to_image" /\ ~call.done
    /\ LET r == add_text_to_image(call.a, fs, call.installed, call.strict)
       IN  /\ call' = [call EXCEPT !.done = TRUE, !.r = r]
           /\ fs' = r.files
    /\ UNCHANGED <<call_count, invocations, first_approved, model_calls, vresult, batch>>

AddTextNextToImage ==
    /\ call.fn = "add_text_next_to_image" /\ ~call.done
    /\ LET r == add_text_next_to_image(call.a, fs, call.installed)
       IN  /\ call' = [call EXCEPT !.done = TRUE, !.r = r]
           /\ fs' = r.files
    /\ UNCHANGED <<call_count, invocations, first_approved, model_calls, vresult, batch>>

NextTools == AddTextToImage \/ AddTextNextToImage

SpecTools == InitTools /\ [][NextTools]_vars

ToolDone == call.fn \in Tools /\ call.done

\* C9: when the source image path does not exist, the invocation of
\* add_text_to_image or add_text_next_to_image raises FileNotFoundError and
\* leaves the file system as it was: no file is written, none is changed.
C9_MissingSourceRaisesAndWritesNothing ==
    [][ (call.fn \in Tools /\ ~call.done /\ call'.done /\ call.a.image_path \notin DOMAIN fs)
            => (call'.r.exc = "FileNotFoundError" /\ call'.r.ret = None /\ fs' = fs) ]_vars

\* C9 witness: an invocation on a missing path has raised, the other files
\* being still there
C9_Witness ==
    /\ ToolDone
    /\ call.fn = "add_text_next_to_image"
    /\ call.a.image_path = <<"m", ".", "p", "n", "g">>
    /\ call.a.output_path = <<"o", ".", "j", "p", "g">>
    /\ call.r.exc = "FileNotFoundError"
    /\ fs = ToolFiles(BaseSize)

\* the source picture and the ratio in force of a side-panel invocation
PanelSource == fs[call.a.image_path].size

PanelRatio == IfNotNone(call.a.text_width_ratio, Ratio(3, 10))

RightPanelReturned ==
    /\ ToolDone
    /\ call.fn = "add_text_next_to_image"
    /\ call.a.position_str = <<"r", "i", "g", "h", "t">>
    /\ call.a.output_path = None
    /\ call.r.exc = "none"

\* the canvas, paste position and text box of a right panel of the given width
RightPanelIs(panel) ==
    LET w == PanelSource[1]
        h == PanelSource[2]
    IN  /\ call.r.layout.size = <<w + panel, h>>
        /\ fs[call.r.ret].size = <<w + panel, h>>
        /\ call.r.layout.paste_position = <<0, 0>>
        /\ call.r.layout.text_box = <<Px(w), 0, Px(w + panel), Px(h)>>

\* C6 as stated: with edge "right" the panel is round(w*r) wide, that is a
\* whole number nearest to w*r.
C6_RightPanelIsRounded ==
    RightPanelReturned =>
        \E panel \in 0..PanelSource[1] :
            /\ 2 * (panel * PanelRatio.den - PanelSource[1] * PanelRatio.num) <= PanelRatio.den
            /\ 2 * (PanelSource[1] * PanelRatio.num - panel * PanelRatio.den) <= PanelRatio.den
            /\ RightPanelIs(panel)

\* C6: in add_text_next_to_image with edge "right", ratio r in [0,1] and an
\* image of size (w,h), the panel is int(w*r) wide, the product truncated
\* to a whole number: the canvas is (w + int(w*r), h), the image is pasted
\* at (0,0) and the text box is (w, 0, w + int(w*r), h).
C6_RightPanelIsTruncated ==
    RightPanelReturned =>
        \E panel \in 0..PanelSource[1] :
            /\ panel * PanelRatio.den <= PanelSource[1] * PanelRatio.num
            /\ PanelSource[1] * PanelRatio.num < (panel + 1) * PanelRatio.den
            /\ RightPanelIs(panel)

\* C6 witness: a right panel on a picture five pixels wide with ratio 3/8,
\* where w*r = 1.875
C6_Witness ==
    /\ RightPanelReturned
    /\ PanelSource[1] = 5
    /\ call.a.text_width_ratio = Some(Ratio(3, 8))
    /\ call.r.layout.size[1] = 6

\* position k of path is where its extension starts: a dot after which
\* comes neither a dot nor a separator, and before which the last path
\* component holds more than dots
ProperExtensionAt(path, k) ==
    /\ k < Len(path)
    /\ path[k + 1] = "."
    /\ \A i \in (k + 2)..Len(path) : path[i] \notin {".", "/"}
    /\ \E i \in 1..k : path[i] # "." /\ \A j \in i..k : path[j] # "/"

ExtensionAt(path, k) ==
    \/ ProperExtensionAt(path, k)
    \/ k = Len(path) /\ ~\E j \in 0..Len(path) : ProperExtensionAt(path, j)

ToolSuffix(fn) == IF fn = "add_text_to_image" THEN <<"_", "w", "i", "t", "h", "_", "t", "e", "x", "t">> ELSE <<"_", "w", "i", "t", "h", "_", "t", "e", "x", "t", "_", "b", "o", "x">>

\* C10: without an explicit output path the output path is the input path
\* with the tool's suffix ("_with_text", "_with_text_box") inserted before
\* the extension, and differs from the other tool's default path; an
\* explicit output path is used verbatim; the path returned is the output
\* path, and the picture was saved there.
C10_OutputPath ==
    (ToolDone /\ call.r.exc # "FileNotFoundError") =>
        LET path == call.a.image_path
            out == call.r.layout.final_output_path
        IN  /\ call.a.output_path = None =>
                /\ \E k \in 0..Len(path) :
                       /\ ExtensionAt(path, k)
                       /\ out = SubSeq(path, 1, k) \o ToolSuffix(call.fn)
                                    \o SubSeq(path, k + 1, Len(path))
                /\ \A other \in Tools \ {call.fn} :
                       out # _create_output_path(path, None, ToolSuffix(other))
            /\ call.a.output_path # None => out = call.a.output_path
            /\ call.r.exc = "none" =>
                /\ call.r.ret = out
                /\ out \in DOMAIN fs
                /\ Len(fs[out].ops) > 0

\* C10 witness: a side panel for "A.JPG" without an output path was saved
\* at "A_with_text_box.JPG"
C10_Witness ==
    /\ ToolDone
    /\ call.fn = "add_text_next_to_image"
    /\ call.a.image_path = <<"A", ".", "J", "P", "G">>
    /\ call.a.output_path = None
    /\ call.r.ret = <<"A", "_", "w", "i", "t", "h", "_", "t", "e", "x", "t", "_", "b", "o", "x", ".", "J", "P", "G">>
    /\ call.r.ret \in DOMAIN fs

\* an edge token that is none of left, right, top, bottom in any case
NoEdgeToken(token) == token = None \/ lower(token) \notin Edges

FitsOnOneLine ==
    /\ call.fn = "_wrap_text" /\ call.done
    /\ \A i \in 1..Len(call.text) : call.text[i] # "\n"
    /\ textbbox_right(call.text, call.font) < call.max_width

\* no blank at either end and no two blanks in a row
SingleSpaced(line) ==
    /\ line # <<>> => (line[1] \notin Whitespace /\ line[Len(line)] \notin Whitespace)
    /\ \A i \in 1..(Len(line) - 1) : ~(line[i] \in Whitespace /\ line[i + 1] \in Whitespace)

C13_ExplicitBoxReturnedAsIs ==
    (call.fn = "_calculate_text_position" /\ call.done) =>
        \A bt \in BoxTexts :
            call.position_str = bt.text =>
                call.ret = << Px(bt.box[1]), Px(bt.box[2]), Px(bt.box[3]), Px(bt.box[4]) >>

\* C13 witness: the box (20,-3,1,1), outside a canvas nine pixels wide and
\* with its corners in reverse order, came back unchanged
C13_Witness ==
    /\ call.fn = "_calculate_text_position" /\ call.done
    /\ call.position_str = <<"(", "2", "0", ",", "-", "3", ",", "1", ",", "1", ")">>
    /\ call.g.W = MaxSide /\ call.g.p = 3
    /\ call.ret = << Px(20), Px(0 - 3), Px(1), Px(1) >>

\* an overlay at anchor "bottom" that got as far as the layout
BottomLaidOut ==
    /\ ToolDone
    /\ call.fn = "add_text_to_image"
    /\ call.r.exc # "FileNotFoundError"
    /\ call.a.position_str # None
    /\ lower(call.a.position_str) = <<"b", "o", "t", "t", "o", "m">>

\* the canvas height H, the padding p and the padded block height th of
\* the overlay, as lengths
CanvasHeight == Px(call.r.layout.size[2])

LayoutPadding == Px(call.r.layout.padding)

BlockHeight ==
    Len(call.r.layout.lines) * LineHeight(call.r.layout.font_size) + 2 * LayoutPadding

\* the box is (.., H-th-p, .., H-p)
BottomBoxAsStated ==
    /\ call.r.layout.text_box[2] = CanvasHeight - BlockHeight - LayoutPadding
    /\ call.r.layout.text_box[4] = CanvasHeight - LayoutPadding

\* the vertical center of the box lies below the middle of the canvas
CenterInLowerHalf == call.r.layout.text_box[2] + call.r.layout.text_box[4] > CanvasHeight

\* the picture of 800 x 600 with font size 24 and padding 10
BottomScenario ==
    /\ call.r.layout.size = ScenarioSize
    /\ call.r.layout.font_size = 24
    /\ call.r.layout.padding = 10

\* C14 as stated: at anchor "bottom" the box is (.., H-th-p, .., H-p), its
\* center lies in the lower half whenever th + 2p < H, and it does so for
\* the picture of 800 x 600 with font size 24 and every block of two or
\* more lines.
C14_BottomInLowerHalfFromTwoLines ==
    BottomLaidOut =>
        /\ BottomBoxAsStated
        /\ BlockHeight + 2 * LayoutPadding < CanvasHeight => CenterInLowerHalf
        /\ (BottomScenario /\ Len(call.r.layout.lines) >= 2) => CenterInLowerHalf

\* C14: at anchor "bottom" on a canvas of height H, with padded block
\* height th and padding p, the box is (.., H-th-p, .., H-p) and its
\* vertical center lies in the lower half exactly when th + 2p < H; for the
\* picture of 800 x 600 with font size 24 and padding 10 that is the case
\* for blocks of up to 19 lines, and no longer from 20 lines on.
C14_BottomInLowerHalfWhenItFits ==
    BottomLaidOut =>
        /\ BottomBoxAsStated
        /\ BlockHeight + 2 * LayoutPadding < CanvasHeight <=> CenterInLowerHalf
        /\ BottomScenario => (Len(call.r.layout.lines) <= 19 <=> CenterInLowerHalf)

\* C14 witness: two lines at the bottom of the picture of 800 x 600; the
\* box spans 512.4 to 590 pixels from the top
C14_Witness ==
    /\ BottomLaidOut /\ BottomScenario
    /\ call.r.exc = "none"
    /\ Len(call.r.layout.lines) = 2
    /\ call.r.layout.text_box[2] = 2562
    /\ call.r.layout.text_box[4] = Px(590)
    /\ CenterInLowerHalf

\* C15: in every invocation of add_text_to_image and add_text_next_to_image
\* that gets as far as the layout, the font size used for the layout is
\* greater than 0 and the padding is at least 0, whatever was passed for
\* font_size and padding.
C15_EffectiveSizesPositive ==
    (ToolDone /\ call.r.exc # "FileNotFoundError") =>
        /\ call.r.layout.font_size > 0
        /\ call.r.layout.padding >= 0

\* the font file of the requested family with its bold/italic suffix
RequestedFontFile ==
    call.a.font_name
        \o (IF IfNotNone(call.a.bold, FALSE) THEN <<"B", "o", "l", "d">> ELSE <<>>)
        \o (IF IfNotNone(call.a.italic, FALSE) THEN <<"I", "t", "a", "l", "i", "c">> ELSE <<>>)
        \o <<".", "t", "t", "f">>

\* the font is the first installed one of the list, the default if none is
FirstOfListOrDefault(font, fonts, installed) ==
    \/ \E i \in 1..Len(fonts) :
           /\ fonts[i] \in installed
           /\ \A j \in 1..(i - 1) : fonts[j] \notin installed
           /\ font.file = fonts[i]
    \/ /\ \A i \in 1..Len(fonts) : fonts[i] \notin installed
       /\ font = load_default

\* C16: the font of an invocation is the requested family with its
\* bold/italic suffix when that file loads; otherwise it is the first font
\* of the ordered list of common fonts that loads, and the built-in default
\* only when none of the list loads, also when a family name was given.
C16_FontFallsBackThroughTheList ==
    (ToolDone /\ call.r.exc # "FileNotFoundError" /\ call.r.layout.font_size > 0) =>
        IF ~Falsy(call.a.font_name) /\ RequestedFontFile \in call.installed
        THEN call.r.layout.font.file = RequestedFontFile
        ELSE FirstOfListOrDefault(call.r.layout.font,
                 common_fonts(IfNotNone(call.a.bold, FALSE), IfNotNone(call.a.italic, FALSE)),
                 call.installed)

\* C17: every invocation of validate_image_prompts with an empty
\* prompts_list raises ValueError, the third and the later ones included.
C17_EmptyListAlwaysRaises ==
    (invocations >= 1 /\ vresult.prompts_before = <<>>) =>
        (vresult.kind = "raise" /\ vresult.exc = "ValueError")

\* an item whose image_name ends in something else than .png, .jpg, .jpeg
BadExtension(item) ==
    /\ item.is_dict /\ "image_name" \in item.keys
    /\ item.image_name # <<>>
    /\ LowerTok(item.image_name[Len(item.image_name)]) \notin {".png", ".jpg", ".jpeg"}

\* C18: generate_images_batch raises when an item's image_name has an
\* extension other than .png, .jpg or .jpeg: it never returns a mapping.
C18_BadExtensionRaises ==
    (batch.pc # "idle" /\ \E i \in 1..Len(batch.given) : BadExtension(batch.given[i])) =>
        batch.pc # "done"

(***************************************************************************)
(* create_book (src/book_creator.py).  The file system is here the         *)
(* text_adjacent folder of the story: whether it exists and the names of   *)
(* the files in it.  Between the set-up and the verification the manager   *)
(* agent runs, and may write and delete files and remove the folder.       *)
(***************************************************************************)
LayoutNames ==
    { <<"cover", ".jpg">>, <<"page1", ".jpg">>, <<"page1", ".png">>, <<"story", ".txt">> }

Folder(present, files) == [exists |-> present, files |-> files]

Folders == { Folder(TRUE, files) : files \in SUBSET LayoutNames } \cup { Folder(FALSE, {}) }

\* Path.glob('*.jpg'): the names of the folder that end in ".jpg"
glob_jpg(folder) == { f \in folder.files : f[Len(f)] = ".jpg" }

\* utils.py lines 42-46: mkdir(parents=True, exist_ok=True) keeps what is there
setup_directory_structure(folder) == Folder(TRUE, folder.files)

\* lines 101-106: the exception raised, "none" when the function returns
verify_book_completion(folder) ==
    IF folder.exists /\ glob_jpg(folder) = {} THEN "ValueError" ELSE "none"

BookTitles == { None, <<"M", "o", "o", "n">> }

InitBook ==
    /\ call_count = 0 /\ invocations = 0 /\ first_approved = 0 /\ model_calls = 0
    /\ vresult = NoResult /\ batch = NoBatch
    /\ fs \in Folders
    /\ \E title \in BookTitles :
           call = [fn |-> "create_book", pc |-> "start", exc |-> "none",
                   story_name |-> IF Falsy(title) THEN <<"Untitled_Story">> ELSE title]

\* lines 44-77: the folders are made, the prompt is prepared, the agents
\* are initialized; any failure is logged and raised again
BookSetUp ==
    /\ call.fn = "create_book" /\ call.pc = "start"
    /\ \E ok \in BOOLEAN :
           IF ok
           THEN /\ fs' = setup_directory_structure(fs)
                /\ call' = [call EXCEPT !.pc = "agent"]
           ELSE /\ fs' = fs
                /\ call' = [call EXCEPT !.pc = "raised", !.exc = "OSError"]
    /\ UNCHANGED <<call_count, invocations, first_approved, model_calls, vresult, batch>>

\* line 78, while the agent runs: it writes a file into the folder
AgentWrites ==
    /\ call.fn = "create_book" /\ call.pc = "agent"
    /\ fs.exists
    /\ \E f \in LayoutNames \ fs.files : fs' = Folder(TRUE, fs.files \cup {f})
    /\ UNCHANGED <<call_count, invocations, first_approved, model_calls, vresult, batch, call>>

\* line 78, while the agent runs: it deletes a file of the folder
AgentDeletes ==
    /\ call.fn = "create_book" /\ call.pc = "agent"
    /\ \E f \in fs.files : fs' = Folder(TRUE, fs.files \ {f})
    /\ UNCHANGED <<call_count, invocations, first_approved, model_calls, vresult, batch, call>>

\* line 78, while the agent runs: it removes the folder with its files
AgentRemovesFolder ==
    /\ call.fn = "create_book" /\ call.pc = "agent"
    /\ fs.exists
    /\ fs' = Folder(FALSE, {})
    /\ UNCHANGED <<call_count, invocations, first_approved, model_calls, vresult, batch, call>>

\* line 78, while the agent runs: it makes the folder again
AgentMakesFolder ==
    /\ call.fn = "create_book" /\ call.pc = "agent"
    /\ ~fs.exists
    /\ fs' = Folder(TRUE, {})
    /\ UNCHANGED <<call_count, invocations, first_approved, model_calls, vresult, batch, call>>

\* line 78: the run raises, and create_book raises it again (lines 84-86)
AgentRaises ==
    /\ call.fn = "create_book" /\ call.pc = "agent"
    /\ call' = [call EXCEPT !.pc = "raised", !.exc = "Exception"]
    /\ UNCHANGED <<call_count, invocations, first_approved, model_calls, vresult, batch, fs>>

\* lines 78-86: the run returns its result, the folder is verified, and
\* create_book returns the result or raises what the verification raised
BookVerifyAndReturn ==
    /\ call.fn = "create_book" /\ call.pc = "agent"
    /\ call' = IF verify_book_completion(fs) = "none"
               THEN [call EXCEPT !.pc = "returned"]
               ELSE [call EXCEPT !.pc = "raised", !.exc = verify_book_completion(fs)]
    /\ UNCHANGED <<call_count, invocations, first_approved, model_calls, vresult, batch, fs>>

NextBook ==
    \/ BookSetUp \/ AgentWrites \/ AgentDeletes \/ AgentRemovesFolder \/ AgentMakesFolder
    \/ AgentRaises \/ BookVerifyAndReturn

SpecBook == InitBook /\ [][NextBook]_vars

\* C19: create_book returns normally only when the text_adjacent folder
\* exists and holds a .jpg file; with an empty folder, a folder of other
\* files only, or a folder that no longer exists, it raises ValueError.
C19_ReturnsOnlyWithLayouts ==
    /\ (call.fn = "create_book" /\ call.pc = "returned") =>
           (fs.exists /\ \E f \in fs.files : f[Len(f)] = ".jpg")
    /\ (call.fn = "create_book" /\ call.pc = "raised" /\ call.exc = "ValueError") =>
           ~(fs.exists /\ \E f \in fs.files : f[Len(f)] = ".jpg")


(***************************************************************************)
(* The attempt counter of validate_image_prompts.                          *)
(***************************************************************************)
\* C20: every invocation of validate_image_prompts, with any prompts list
\* and whether it returns or raises, increases the counter by exactly 1;
\* nothing decreases or resets it; the validation_attempts of a returned
\* result is the number of invocations made so far.
C20_CounterCountsInvocations ==
    [][/\ call_count' = call_count + 1
       /\ call_count' = invocations'
       /\ vresult'.kind = "return" => vresult'.validation_attempts = invocations']_vars

\* C20 witness: the counter stands at 4 after an invocation with an empty
\* list that returned, or at 2 after one that raised.
C20_Witness ==
    \/ /\ invocations = 4 /\ call_count = 4
       /\ vresult.kind = "return" /\ vresult.validation_attempts = 4
       /\ vresult.prompts_before = <<>>
    \/ /\ invocations = 2 /\ call_count = 2
       /\ vresult.kind = "raise"


(***************************************************************************)
(* The cases of _parse_color.                                              *)
(***************************************************************************)
\* the fields of a string that begins with "(" and ends with ")"
FieldsOf(s) == Split(SubSeq(s, 2, Len(s) - 1), ",")

Wrapped(s) == Len(s) >= 2 /\ s[1] = "(" /\ s[Len(s)] = ")"

IsField(t) == \E f \in FieldTexts : f.text = t

IsIntegerField(t) == \E f \in FieldTexts : f.text = t /\ f.ok

FieldValue(t) == (CHOOSE f \in FieldTexts : f.text = t).val

\* "(f1,f2,f3)" with the three fields taken from FieldTexts
ThreeFields(s) ==
    /\ s # None /\ Wrapped(s)
    /\ Len(FieldsOf(s)) = 3
    /\ \A i \in 1..3 : IsField(FieldsOf(s)[i])

\* C21: _parse_color gives "black" (role text) or "white" (role background)
\* for an empty or absent colour, the triple of integers for "(r,g,b)", the
\* default of the role for a parenthesized string of three fields one of
\* which is no integer, and the string itself when it is not wrapped in
\* parentheses.
C21_ParseColorCases ==
    (call.fn = "_parse_color" /\ call.done) =>
        LET s == call.color_str
        IN  /\ (s = None \/ s = <<>>) =>
                  call.ret = NameColor(IF call.color_type = "text" THEN Black ELSE White)
            /\ (ThreeFields(s) /\ \A i \in 1..3 : IsIntegerField(FieldsOf(s)[i])) =>
                  call.ret = RgbColor(FieldValue(FieldsOf(s)[1]), FieldValue(FieldsOf(s)[2]),
                                      FieldValue(FieldsOf(s)[3]))
            /\ (ThreeFields(s) /\ \E i \in 1..3 : ~IsIntegerField(FieldsOf(s)[i])) =>
                  call.ret = NameColor(IF call.color_type = "text" THEN Black ELSE White)
            /\ (s # None /\ s # <<>> /\ ~(s[1] = "(" /\ s[Len(s)] = ")")) =>
                  call.ret = NameColor(s)

\* C21 witness: "(20,-3, 7)" parsed for the background role
C21_Witness ==
    /\ call.fn = "_parse_color" /\ call.done
    /\ call.color_type = "background"
    /\ call.color_str = <<"(", "2", "0", ",", "-", "3", ",", " ", "7", ")">>
    /\ call.ret = RgbColor(20, 0 - 3, 7)


(***************************************************************************)
(* The order of the draw operations of add_text_to_image.                  *)
(***************************************************************************)
OverlayDrawn == call.fn = "add_text_to_image" /\ call.done /\ call.r.exc = "none"

ShadowOn == call.a.shadow = Some(TRUE)

\* the operations of one line: its shadow, if any, then its text
OpsPerLine == IF ShadowOn THEN 2 ELSE 1

\* the text operation of line i (from 0), and the operation just before it
LineTextOp(i) == call.r.layout.ops[1 + OpsPerLine * (i + 1)]

OpBefore(i) == call.r.layout.ops[OpsPerLine * (i + 1)]

\* C22: the rectangle of the background is the first operation; then the
\* lines come in their wrapped order, line i at y + i * (font_size * 1.2);
\* with shadow the copy at (+2,+2) comes immediately before the text of its
\* line, without shadow there is no operation but the rectangle and one text
\* per line.
C22_DrawOrder ==
    OverlayDrawn =>
        LET ops == call.r.layout.ops
            lines == call.r.layout.lines
        IN  /\ Len(ops) = 1 + OpsPerLine * Len(lines)
            /\ ops[1].op = "rectangle"
            /\ \A j \in 2..Len(ops) : ops[j].op = "text"
            /\ \A i \in 0..(Len(lines) - 1) :
                  /\ LineTextOp(i).line = lines[i + 1]
                  /\ LineTextOp(i).xy[2] = LineTextOp(0).xy[2] + i * (6 * call.r.layout.font_size)
                  /\ ShadowOn =>
                        /\ OpBefore(i).line = lines[i + 1]
                        /\ OpBefore(i).xy = <<LineTextOp(i).xy[1] + 2 * Unit, LineTextOp(i).xy[2] + 2 * Unit>>
                        /\ OpBefore(i).fill = NameColor(<<"g", "r", "a", "y">>)

\* C22 witness: three lines drawn with their shadows, seven operations
C22_Witness ==
    /\ OverlayDrawn /\ ShadowOn
    /\ Len(call.r.layout.lines) = 3
    /\ Len(call.r.layout.ops) = 7
    /\ call.r.layout.ops[2].fill = NameColor(<<"g", "r", "a", "y">>)
    /\ call.r.layout.font_size = 24
    /\ call.r.layout.ops[4].xy[2] = call.r.layout.ops[2].xy[2] + 144
    /\ call.r.layout.ops[5].xy[2] = call.r.layout.ops[4].xy[2] - 2 * Unit


(***************************************************************************)
(* The side panel of add_text_next_to_image: the pasted picture and the    *)
(* text box on the new canvas.                                             *)
(***************************************************************************)
PanelReturned ==
    /\ ToolDone
    /\ call.fn = "add_text_next_to_image"
    /\ call.r.exc = "none"
    /\ call.r.ret # call.a.image_path

\* the edge asked for, in lower case
PanelEdge == IF Falsy(call.a.position_str) THEN Center ELSE lower(call.a.position_str)

\* the rectangle the picture is pasted into, and the text box, in pixels
PastedRegion ==
    LET at == call.r.layout.paste_position
    IN  <<at[1], at[2], at[1] + PanelSource[1], at[2] + PanelSource[2]>>

PanelTextBox == [i \in 1..4 |-> call.r.layout.text_box[i] \div Unit]

RectArea(r) == (r[3] - r[1]) * (r[4] - r[2])

RectInside(r, size) ==
    /\ 0 <= r[1] /\ r[1] <= r[3] /\ r[3] <= size[1]
    /\ 0 <= r[2] /\ r[2] <= r[4] /\ r[4] <= size[2]

RectsDisjoint(r, q) == r[3] <= q[1] \/ q[3] <= r[1] \/ r[4] <= q[2] \/ q[4] <= r[2]

\* the two rectangles are disjoint, lie on the canvas and fill it; the text
\* box is at the edge asked for
PanelTiles ==
    /\ \A i \in 1..4 : call.r.layout.text_box[i] % Unit = 0
    /\ RectInside(PastedRegion, call.r.layout.size)
    /\ RectInside(PanelTextBox, call.r.layout.size)
    /\ RectsDisjoint(PastedRegion, PanelTextBox)
    /\ RectArea(PastedRegion) + RectArea(PanelTextBox)
          = call.r.layout.size[1] * call.r.layout.size[2]
    /\ PanelEdge = <<"l", "e", "f", "t">> => PanelTextBox[1] = 0 /\ PastedRegion[1] = PanelTextBox[3]
    /\ PanelEdge = <<"r", "i", "g", "h", "t">> => PastedRegion[1] = 0 /\ PanelTextBox[1] = PastedRegion[3]
    /\ PanelEdge = <<"t", "o", "p">> => PanelTextBox[2] = 0 /\ PastedRegion[2] = PanelTextBox[4]
    /\ PanelEdge = <<"b", "o", "t", "t", "o", "m">> => PastedRegion[2] = 0 /\ PanelTextBox[2] = PastedRegion[4]

\* the side of the picture the ratio is applied to, and the extent of the panel
PanelSide == IF PanelEdge \in {<<"t", "o", "p">>, <<"b", "o", "t", "t", "o", "m">>} THEN PanelSource[2] ELSE PanelSource[1]

PanelExtent ==
    IF PanelEdge \in {<<"t", "o", "p">>, <<"b", "o", "t", "t", "o", "m">>}
    THEN PanelTextBox[4] - PanelTextBox[2]
    ELSE PanelTextBox[3] - PanelTextBox[1]

PanelAcross ==
    IF PanelEdge \in {<<"t", "o", "p">>, <<"b", "o", "t", "t", "o", "m">>}
    THEN PanelTextBox[3] - PanelTextBox[1] = PanelSource[1]
    ELSE PanelTextBox[4] - PanelTextBox[2] = PanelSource[2]

\* C23 (as stated): for each edge, size and ratio in [0,1] the pasted
\* region and the text box are disjoint and cover the new canvas exactly,
\* and the panel extent is the ratio times the width (left, right) or the
\* height (top, bottom) of the picture.
C23_PanelIsRatioTimesSide ==
    PanelReturned =>
        /\ PanelTiles
        /\ PanelAcross
        /\ PanelExtent * PanelRatio.den = PanelSide * PanelRatio.num

\* C23 (amended): the same, the panel extent being int(ratio * side), the
\* product truncated to a whole number of pixels.
C23_PanelIsTruncatedRatioTimesSide ==
    PanelReturned =>
        /\ PanelTiles
        /\ PanelAcross
        /\ PanelExtent * PanelRatio.den <= PanelSide * PanelRatio.num
        /\ PanelSide * PanelRatio.num < (PanelExtent + 1) * PanelRatio.den

\* C23 witness: a panel at the left of a picture 7 wide with ratio 5/8
\* (4.375, panel 4), the picture pasted to the right of it
C23_Witness ==
    /\ PanelReturned
    /\ PanelEdge = <<"l", "e", "f", "t">>
    /\ PanelSource[1] = 7
    /\ call.a.text_width_ratio = Some(Ratio(5, 8))
    /\ call.r.layout.paste_position = <<4, 0>>
    /\ call.r.layout.size[1] = 11


(***************************************************************************)
(* The checks of generate_images_batch before its generation loop.         *)
(***************************************************************************)
\* an item of the list as passed that is no dictionary or lacks a key
Malformed(item) ==
    \/ ~item.is_dict
    \/ "image_name" \notin item.keys
    \/ "prompt" \notin item.keys

\* C24: when the list passed is empty, when any of its items is no
\* dictionary or lacks 'image_name' or 'prompt', or when no API key is set,
\* generate_images_batch raises ValueError before the generation loop: no
\* image-generation call is made and no image file is written.
C24_BadListOrNoKeyRaisesBeforeLoop ==
    (/\ batch.pc # "idle"
     /\ \/ batch.given = <<>>
        \/ \E k \in 1..Len(batch.given) : Malformed(batch.given[k])
        \/ ~batch.api_key) =>
        /\ batch.pc = "raised"
        /\ batch.gen_calls = 0
        /\ batch.files = {}


(***************************************************************************)
(* The size of the rectangle of _calculate_text_position.                  *)
(***************************************************************************)
\* C25: for each of the nine anchors and for the fallback, and for whole
\* canvas sizes, block sizes (tw, th) and paddings, the rectangle
\* (x1, y1, x2, y2) returned has x2 - x1 = tw and y2 - y1 = th, also on the
\* axes that are centered with a floor division by 2.
C25_RectangleHasTheBlockSize ==
    (call.fn = "_calculate_text_position" /\ call.done /\ call.position.kind = "name") =>
        /\ call.ret[3] - call.ret[1] = Unit * call.g.tw
        /\ call.ret[4] - call.ret[2] = Unit * call.g.th

\* C25 witness: a block 3 x 4 centered on a canvas 4 x 3, where both
\* differences are odd and the vertical one is negative
C25_Witness ==
    /\ call.fn = "_calculate_text_position" /\ call.done
    /\ call.position_str = <<"c", "e", "n", "t", "e", "r">>
    /\ call.g.W = 4 /\ call.g.tw = 3 /\ call.g.H = 3 /\ call.g.th = 4
    /\ call.ret = <<0, 0 - Unit, 3 * Unit, 3 * Unit>>


(***************************************************************************)
(* The lines of add_text_to_image inside the box of a named anchor.        *)
(***************************************************************************)
\* an invocation of add_text_to_image that drew its text at a named anchor
AnchoredOverlay ==
    /\ OverlayDrawn
    /\ (Falsy(call.a.position_str) \/ lower(call.a.position_str) \in Anchors)

\* C26: in add_text_to_image with a named anchor, for the alignments left,
\* center, right and any other (taken as center), every drawn line lies
\* inside the padded interior of the box: line_x >= left + padding and
\* line_x + line_width <= right - padding.
C26_LinesInsidePaddedBox ==
    AnchoredOverlay =>
        LET layout == call.r.layout
        IN  \A i \in 0..(Len(layout.lines) - 1) :
               /\ LineTextOp(i).xy[1] >= layout.text_box[1] + Unit * layout.padding
               /\ LineTextOp(i).xy[1] + textbbox_right(layout.lines[i + 1], layout.font)
                     <= layout.text_box[3] - Unit * layout.padding

\* C26 witness: three lines of widths 3, 0 and 3 aligned to the right, the
\* empty line drawn at the right end of the interior
C26_Witness ==
    /\ AnchoredOverlay
    /\ call.a.align = <<"r", "i", "g", "h", "t">>
    /\ Len(call.r.layout.lines) = 3
    /\ call.r.layout.lines[2] = <<>>
    /\ LineTextOp(1).xy[1] = call.r.layout.text_box[3] - Unit * call.r.layout.padding
    /\ LineTextOp(0).xy[1] = call.r.layout.text_box[1] + Unit * call.r.layout.padding


(***************************************************************************)
(* The box of a named anchor and the canvas, horizontally.                 *)
(***************************************************************************)
\* the anchor asked for, "center" when none is given
AnchorAsked == IF Falsy(call.a.position_str) THEN Center ELSE lower(call.a.position_str)

\* every wrapped line fits the wrap width, img.width - 2 * padding
LinesFitWrapWidth ==
    \A i \in 1..Len(call.r.layout.lines) :
        textbbox_right(call.r.layout.lines[i], call.r.layout.font)
            <= Unit * (call.r.layout.size[1] - 2 * call.r.layout.padding)

\* every wrapped line fits img.width - 3 * padding
LinesFitInsidePadding ==
    \A i \in 1..Len(call.r.layout.lines) :
        textbbox_right(call.r.layout.lines[i], call.r.layout.font)
            <= Unit * (call.r.layout.size[1] - 3 * call.r.layout.padding)

BoxWithinCanvasWidth ==
    /\ 0 <= call.r.layout.text_box[1]
    /\ call.r.layout.text_box[3] <= Unit * call.r.layout.size[1]

\* C27 (as stated, for a padding that is not negative): when every wrapped
\* line fits the wrap width, the box of each of the nine anchors lies
\* horizontally within the canvas.
C27_BoxWithinCanvasWidth ==
    (AnchoredOverlay /\ LinesFitWrapWidth /\ call.r.layout.padding >= 0) => BoxWithinCanvasWidth

\* C27 (amended): when every wrapped line fits the wrap width, the box of
\* top, bottom and center lies horizontally within the canvas; the box of a
\* left anchor starts at the padding and that of a right anchor ends at the
\* width less the padding, and these lie within the canvas when the padding
\* is not negative and every line fits the width less three times the
\* padding.
C27_BoxWithinCanvasWidthByAnchor ==
    (AnchoredOverlay /\ LinesFitWrapWidth) =>
        /\ AnchorAsked \in {<<"t", "o", "p">>, <<"b", "o", "t", "t", "o", "m">>, <<"c", "e", "n", "t", "e", "r">>} => BoxWithinCanvasWidth
        /\ AnchorAsked \in {<<"t", "o", "p", "-", "l", "e", "f", "t">>, <<"b", "o", "t", "t", "o", "m", "-", "l", "e", "f", "t">>, <<"c", "e", "n", "t", "e", "r", "-", "l", "e", "f", "t">>} =>
              call.r.layout.text_box[1] = Unit * call.r.layout.padding
        /\ AnchorAsked \in {<<"t", "o", "p", "-", "r", "i", "g", "h", "t">>, <<"b", "o", "t", "t", "o", "m", "-", "r", "i", "g", "h", "t">>, <<"c", "e", "n", "t", "e", "r", "-", "r", "i", "g", "h", "t">>} =>
              call.r.layout.text_box[3] = Unit * (call.r.layout.size[1] - call.r.layout.padding)
        /\ (call.r.layout.padding >= 0 /\ LinesFitInsidePadding) => BoxWithinCanvasWidth

\* C27 witness: at "top-right" with padding 13 the line of 3 pixels fits the
\* wrap width of 14, and the box of 29 pixels starts 2 pixels left of the
\* canvas
C27_Witness ==
    /\ AnchoredOverlay /\ LinesFitWrapWidth
    /\ call.a.position_str = <<"t", "o", "p", "-", "r", "i", "g", "h", "t">>
    /\ call.a.padding = Some(13)
    /\ call.r.layout.text_box[1] = 0 - 2 * Unit
    /\ call.r.layout.text_box[3] = 27 * Unit


(***************************************************************************)
(* The words of the lines of _wrap_text.                                   *)
(***************************************************************************)
\* the whitespace-delimited words of the lines, read in order
RECURSIVE WordsOfLines(_)
WordsOfLines(lines) ==
    IF lines = <<>> THEN <<>>
    ELSE SplitWords(Head(lines)) \o WordsOfLines(Tail(lines))

\* the lines are those of the paragraphs in order: one empty line for a
\* paragraph without words, and for any other paragraph one or more lines,
\* each with a word, that hold its words in order
RECURSIVE LinesOfParagraphs(_, _)
LinesOfParagraphs(paragraphs, lines) ==
    IF paragraphs = <<>> THEN lines = <<>>
    ELSE IF SplitWords(Head(paragraphs)) = <<>>
    THEN /\ lines # <<>>
         /\ Head(lines) = <<>>
         /\ LinesOfParagraphs(Tail(paragraphs), Tail(lines))
    ELSE \E k \in 1..Len(lines) :
            /\ \A i \in 1..k : SplitWords(lines[i]) # <<>>
            /\ WordsOfLines(SubSeq(lines, 1, k)) = SplitWords(Head(paragraphs))
            /\ LinesOfParagraphs(Tail(paragraphs), SubSeq(lines, k + 1, Len(lines)))

\* C28: _wrap_text loses, duplicates and reorders no word: the words of the
\* returned lines read in order are the words of the input in order, no
\* line mixes words of two paragraphs, and each paragraph without words
\* yields exactly one empty line.
C28_WordsKeptByParagraph ==
    (call.fn = "_wrap_text" /\ call.done) =>
        /\ WordsOfLines(call.lines) = SplitWords(call.text)
        /\ LinesOfParagraphs(Split(call.text, "\n"), call.lines)

\* C28 witness: "i i" wrapped at one pixel, followed by an empty paragraph
C28_Witness ==
    /\ call.fn = "_wrap_text" /\ call.done
    /\ call.text = <<"i", " ", "i", "\n">>
    /\ call.max_width = Unit
    /\ call.lines = << <<"i">>, <<"i">>, <<>> >>


(***************************************************************************)
(* The source file of an invocation without an output path.                *)
(***************************************************************************)
\* C29: when no output path is given, add_text_to_image and
\* add_text_next_to_image leave the source file as it was: the derived path
\* differs from the input path, with or without an extension, and no file
\* but the one at the derived path is written.
C29_SourceLeftUnchanged ==
    [][ (call.fn \in Tools /\ ~call.done /\ call'.done
             /\ call.a.output_path = None /\ call.a.image_path \in DOMAIN fs)
            => /\ call'.r.layout.final_output_path # call.a.image_path
               /\ call.a.image_path \in DOMAIN fs'
               /\ fs'[call.a.image_path] = fs[call.a.image_path]
               /\ \A p \in DOMAIN fs' :
                      p # call'.r.layout.final_output_path => (p \in DOMAIN fs /\ fs'[p] = fs[p])
               /\ DOMAIN fs \subseteq DOMAIN fs' ]_vars

\* C29 witness: the overlay on "a.png" was written over the existing
\* "a_with_text.png", and "a.png" is as it was
C29_Witness ==
    /\ ToolDone
    /\ call.fn = "add_text_to_image"
    /\ call.a.image_path = <<"a", ".", "p", "n", "g">>
    /\ call.a.output_path = None
    /\ call.r.ret = <<"a", "_", "w", "i", "t", "h", "_", "t", "e", "x", "t", ".", "p", "n", "g">>
    /\ fs[<<"a", "_", "w", "i", "t", "h", "_", "t", "e", "x", "t", ".", "p", "n", "g">>].ops # <<>>
    /\ fs[<<"a", ".", "p", "n", "g">>].ops = <<>>

====
